---- MODULE Spec2Model ----
(***************************************************************************)
(* ZCADTCPClient (src/server/zcad_tcp_client.py): the TCP + JSON client of *)
(* the drawing server, its connection lifecycle, command IDs, the          *)
(* request/response exchange in persistent and in ephemeral mode, and the  *)
(* batch helper random_lines.                                              *)
(*                                                                         *)
(* The client is driven by one caller: an operation starts when the        *)
(* previous one has finished (pc = "idle").  random_lines is split at its  *)
(* sends; every other operation is one step.  The caller may use the       *)
(* client in a with statement: the block ends when an operation raises.    *)
(*  The peer and the network are *)
(* the environment: each exchange draws what they do from a bounded set of *)
(* scripts.                                                                *)
(***************************************************************************)
EXTENDS Integers, Sequences, FiniteSets, TLC

VARIABLES
    counter,   \* self._counter
    socket,    \* self._socket: None, or the socket object (its number)
    link,      \* what the owned socket object is connected to, if anything
    owed,      \* owned connection: IDs of the requests sent and never answered
    nsock,     \* socket objects created so far
    open,      \* socket objects created and not closed
    ids,       \* the IDs _generate_id has returned, oldest first
    lastSend,  \* the latest _send_command of the operation: request, outcome, result
    wire,      \* what the current (or latest) operation did on sockets
    op,        \* the current (or latest) operation of the caller
    argv,      \* the arguments the caller gave to a single command, or the
               \* request body a handler of the proxy validates
    pc,        \* "idle", or where random_lines is
    count,     \* random_lines: count
    lo,        \* random_lines: min_coord
    hi,        \* random_lines: max_coord
    i,         \* random_lines: LINE commands issued so far
    results,   \* random_lines: the local list results
    pending,   \* random_lines: what the try block left for after finally
    ret,       \* how the latest operation ended: returned value or exception
    inWith,    \* the caller is inside a with-block on the client
    threads,   \* proxy: where each handler thread is in its call on the client
    net,       \* proxy: requests written, replies in socket buffers, closes
    http,      \* proxy: the request being handled and the response to it
    rx,        \* the persistent exchange in progress, read by read
    ipc        \* a ZCADIPCClient (uzvipcclient.py) and its random_lines call

vars == <<counter, socket, link, owed, nsock, open, ids, lastSend, wire, op, argv, pc,
          count, lo, hi, i, results, pending, ret, inWith, threads, net, http, rx, ipc>>

(***************************************************************************)
(* Bounds of the model.                                                    *)
(***************************************************************************)
MaxCmds == 4     \* commands one instance issues in a behaviour
MaxCount == 2    \* largest count passed to random_lines
MaxSocks == 2    \* socket objects one instance creates in a behaviour
MaxReads == 2    \* recv calls that return data within one exchange
MaxIdCalls == 12 \* _generate_id calls in a behaviour of SpecIds
MaxThreads == 2  \* handler threads of the proxy running at once
MaxBurst == 1    \* largest count a handler passes to random_lines
MaxFloat == 2    \* the largest finite float of the model's number line

(***************************************************************************)
(* Program constants.                                                      *)
(***************************************************************************)
IdWidth == 4     \* f"cmd-{self._counter:04d}"

None == 0        \* Python's None for self._socket

(***************************************************************************)
(* _generate_id: the counter formatted with at least IdWidth digits.       *)
(***************************************************************************)
Digit(d) == CASE d = 0 -> "0" [] d = 1 -> "1" [] d = 2 -> "2" [] d = 3 -> "3"
              [] d = 4 -> "4" [] d = 5 -> "5" [] d = 6 -> "6" [] d = 7 -> "7"
              [] d = 8 -> "8" [] d = 9 -> "9"

RECURSIVE Decimal(_)
\* str(n) for n >= 0, as a sequence of characters
Decimal(n) == IF n < 10 THEN <<Digit(n)>>
              ELSE Append(Decimal(n \div 10), Digit(n % 10))

RECURSIVE ZeroPad(_, _)
\* the format spec 0<w>d: zeros on the left up to width w, never a cut
ZeroPad(s, w) == IF Len(s) >= w THEN s ELSE ZeroPad(<<"0">> \o s, w)

FormatId(n) == <<"c", "m", "d", "-">> \o ZeroPad(Decimal(n), IdWidth)

(***************************************************************************)
(* Bytes on the wire.  A buffer is a sequence of pieces: a complete JSON   *)
(* value of one of the shapes below, the two halves of an 'ok' reply,      *)
(* bytes that are no JSON, or bytes that are no UTF-8.                     *)
(***************************************************************************)
JsonValues == {"ok",        \* {"id": .., "status": "ok", ..}
               "err",       \* {"id": .., "status": "error", "error": "<message>"}
               "errnomsg",  \* {"id": .., "status": "error"}
               "nostatus",  \* {}
               "nonobj"}    \* a JSON value that is not an object, e.g. []

Pieces == JsonValues \cup {"head", "tail", "junk", "badutf8"}

\* what one recv(4096) may return: one piece, or a reply followed by more bytes
Chunks == {<<p>> : p \in Pieces} \cup {<<"ok", "ok">>, <<"ok", "junk">>}

Exc(e) == [exc |-> e, val |-> "none"]
Val(v) == [exc |-> "none", val |-> v]

\* json.loads(buf.decode('utf-8')): the whole buffer must be one JSON value
Decode(buf) ==
    IF \E k \in 1..Len(buf) : buf[k] = "badutf8" THEN Exc("UnicodeDecodeError")
    ELSE IF Len(buf) = 1 /\ buf[1] \in JsonValues THEN Val(buf[1])
    ELSE IF buf = <<"head", "tail">> THEN Val("ok")
    ELSE Exc("JSONDecodeError")

(***************************************************************************)
(* The persistent branch of _send_command (lines 84-107).  The script says *)
(* how sendall ends and what the recv calls return: data, end of stream    *)
(* ("eof") or a socket error ("reset"); when the script is used up the     *)
(* peer is silent and recv times out.                                      *)
(***************************************************************************)
Events == {[type |-> "data", bytes |-> c] : c \in Chunks}
            \cup {[type |-> "eof", bytes |-> <<>>], [type |-> "reset", bytes |-> <<>>]}

RECURSIVE SeqsUpTo(_, _)
SeqsUpTo(S, n) == IF n = 0 THEN {<<>>}
                  ELSE LET shorter == SeqsUpTo(S, n - 1)
                       IN shorter \cup {Append(q, e) : q \in shorter, e \in S}

\* the outcome of a try body: exception or decoded value, and what it did;
\* late says that the bytes decoded are the reply to an earlier request
Outcome(r, sent, closed) ==
    [exc |-> r.exc, val |-> r.val, sent |-> sent, closed |-> closed, late |-> FALSE]

\* lines 106-107: after the loop, decode whatever was accumulated
AfterLoop(buf) == Decode(buf)

RECURSIVE ReadLoopTimeoutRaised(_, _)
\* a plausible slip: no inner except clause, the timeout of recv leaves the
\* try body
ReadLoopTimeoutRaised(reads, buf) ==
    IF reads = <<>> THEN Outcome(Exc("socket.timeout"), TRUE, FALSE)
    ELSE LET e == Head(reads) IN
         IF e.type = "eof" THEN Outcome(AfterLoop(buf), TRUE, TRUE)
         ELSE IF e.type = "reset" THEN Outcome(Exc("OSError"), TRUE, TRUE)
         ELSE LET b == buf \o e.bytes
                  d == Decode(b)
              IN IF d.exc = "none" THEN Outcome(d, TRUE, FALSE)
                 ELSE IF d.exc = "JSONDecodeError"
                 THEN ReadLoopTimeoutRaised(Tail(reads), b)
                 ELSE Outcome(d, TRUE, FALSE)

RECURSIVE ReadLoop(_, _)
\* lines 91-104
ReadLoop(reads, buf) ==
    IF reads = <<>> THEN Outcome(AfterLoop(buf), TRUE, FALSE)        \* socket.timeout: break
    ELSE LET e == Head(reads) IN
         IF e.type = "eof" THEN Outcome(AfterLoop(buf), TRUE, TRUE)  \* not chunk: break
         ELSE IF e.type = "reset" THEN Outcome(Exc("OSError"), TRUE, TRUE)
         ELSE LET b == buf \o e.bytes
                  d == Decode(b)
              IN IF d.exc = "none" THEN Outcome(d, TRUE, FALSE)      \* return response
                 ELSE IF d.exc = "JSONDecodeError" THEN ReadLoop(Tail(reads), b)
                 ELSE Outcome(d, TRUE, FALSE)

\* lines 87-107
PersistentBody(s) ==
    IF s.send = "timeout" THEN Outcome(Exc("socket.timeout"), FALSE, FALSE)
    ELSE IF s.send = "oserror" THEN Outcome(Exc("OSError"), FALSE, TRUE)
    ELSE ReadLoop(s.reads, <<>>)

PersistentScripts ==
    {[send |-> w, reads |-> r] : w \in {"ok", "timeout", "oserror"},
                                 r \in SeqsUpTo(Events, MaxReads)}

PersistentOutcomes == {PersistentBody(s) : s \in PersistentScripts}

\* the scripts left once the peer has closed or the connection has broken:
\* sendall fails, or the first recv reports the end
DownScripts ==
    {s \in PersistentScripts :
        \/ s.send = "oserror"
        \/ s.send = "ok" /\ s.reads # <<>> /\ Head(s.reads).type # "data"}

\* the scripts of a socket object that never got connected: sendall fails
UnconnectedScripts == {s \in PersistentScripts : s.send = "oserror"}

DownOutcomes == {PersistentBody(s) : s \in DownScripts}

UnconnectedOutcomes == {PersistentBody(s) : s \in UnconnectedScripts}

\* what the exchange can be, given what the owned socket is connected to
PersistentOutcomesOn(l) ==
    CASE l = "up" -> PersistentOutcomes
      [] l = "down" -> DownOutcomes
      [] OTHER -> UnconnectedOutcomes

LinkAfter(l, o) ==
    CASE l = "unconnected" -> l
      [] o.closed -> "down"
      [] OTHER -> "up"

\* a reply that comes after recv timed out stays in the socket's buffer: the
\* next exchange on the connection can decode it in place of its own reply
LateOutcomes(l) ==
    {[o EXCEPT !.late = TRUE] : o \in {q \in PersistentOutcomesOn(l) : q.exc = "none"}}

\* the requests still unanswered after an exchange on the owned connection
OwedAfter(w, id, o) ==
    CASE ~o.sent -> w
      [] o.closed -> <<>>
      [] o.late -> Append(Tail(w), id)
      [] o.exc = "none" -> <<>>
      [] OTHER -> Append(w, id)

(***************************************************************************)
(* The ephemeral branch (lines 110-125): connect, sendall, shutdown, recv  *)
(* until the peer closes, decode.  The with statement closes the socket on *)
(* every path.                                                             *)
(***************************************************************************)
RECURSIVE Concat(_)
Concat(chunks) == IF chunks = <<>> THEN <<>> ELSE Head(chunks) \o Concat(Tail(chunks))

EphemeralBody(s) ==
    CASE s.connect = "refused" -> Outcome(Exc("ConnectionRefusedError"), FALSE, TRUE)
      [] s.connect = "timeout" -> Outcome(Exc("socket.timeout"), FALSE, TRUE)
      [] s.connect = "oserror" -> Outcome(Exc("OSError"), FALSE, TRUE)
      [] s.send = "timeout" -> Outcome(Exc("socket.timeout"), FALSE, TRUE)
      [] s.send = "oserror" -> Outcome(Exc("OSError"), FALSE, TRUE)
      [] s.end = "timeout" -> Outcome(Exc("socket.timeout"), TRUE, TRUE)
      [] s.end = "reset" -> Outcome(Exc("OSError"), TRUE, TRUE)
      [] OTHER -> Outcome(Decode(Concat(s.reads)), TRUE, TRUE)

EphemeralScripts ==
    {[connect |-> c, send |-> w, reads |-> r, end |-> e] :
        c \in {"ok", "refused", "timeout", "oserror"},
        w \in {"ok", "timeout", "oserror"},
        r \in SeqsUpTo(Chunks, MaxReads),
        e \in {"eof", "timeout", "reset"}}

EphemeralOutcomes == {EphemeralBody(s) : s \in EphemeralScripts}

(***************************************************************************)
(* Python values.  A Response is what json.loads gave or what the except   *)
(* clauses built; a field a dict does not have reads "absent".             *)
(***************************************************************************)
NoId == <<>>

Response(isdict, status, error, id) ==
    [isdict |-> isdict, status |-> status, error |-> error, id |-> id]

\* the Python value of a decoded reply; the peer echoes the request's id
FromJson(v, id) ==
    CASE v = "ok" -> Response(TRUE, "ok", "absent", id)
      [] v = "err" -> Response(TRUE, "error", "<message>", id)
      [] v = "errnomsg" -> Response(TRUE, "error", "absent", id)
      [] v = "nostatus" -> Response(TRUE, "absent", "absent", NoId)
      [] OTHER -> Response(FALSE, "absent", "absent", NoId)

\* str(e) of an exception: never empty
StrOf(e) == "str(" \o e \o ")"

Return(v) == [raised |-> "none", val |-> v]
Raise(e) == [raised |-> e, val |-> Response(FALSE, "absent", "absent", NoId)]

\* a plausible slip: no catch-all clause, other exceptions reach the caller
ExceptClausesNoCatchAll(o, id, reply) ==
    CASE o.exc = "none" -> Return(FromJson(o.val, reply))
      [] o.exc = "socket.timeout" -> Return(Response(TRUE, "error", "Connection timeout", id))
      [] o.exc = "ConnectionRefusedError" ->
            Return(Response(TRUE, "error", "Connection refused - is ZCAD running?", id))
      [] OTHER -> Raise(o.exc)

\* lines 83, 100, 107, 125 and 127-138: the try statement of _send_command;
\* id is the request's, reply the ID of the request the decoded bytes answer
ExceptClauses(o, id, reply) ==
    CASE o.exc = "none" -> Return(FromJson(o.val, reply))
      [] o.exc = "socket.timeout" -> Return(Response(TRUE, "error", "Connection timeout", id))
      [] o.exc = "ConnectionRefusedError" ->
            Return(Response(TRUE, "error", "Connection refused - is ZCAD running?", id))
      [] OTHER -> Return(Response(TRUE, "error", StrOf(o.exc), id))

(***************************************************************************)
(* The client object.                                                      *)
(***************************************************************************)
Self == [counter |-> counter, socket |-> socket, link |-> link, owed |-> owed,
         nsock |-> nsock,
         open |-> open, ids |-> ids, lastSend |-> lastSend, wire |-> wire]

\* the instance's attributes, and what the model records about it, become c
Sets(c) ==
    /\ counter' = c.counter
    /\ socket' = c.socket
    /\ link' = c.link
    /\ owed' = c.owed
    /\ nsock' = c.nsock
    /\ open' = c.open
    /\ ids' = c.ids
    /\ lastSend' = c.lastSend
    /\ wire' = c.wire

\* ... in a call made by the caller itself, not by a handler of the proxy
Becomes(c) == Sets(c) /\ UNCHANGED <<threads, net, http, rx, ipc>>

\* one entry of wire: a connect, a _send_command or a close, the socket it
\* used, whether the bytes went out, and for a command its ID and result
WireEvent(ev, cmd, id, sock, persistent, sent, res) ==
    [ev |-> ev, cmd |-> cmd, id |-> id, sock |-> sock, persistent |-> persistent,
     sent |-> sent, res |-> res]

NoRes == Raise("none")

\* a plausible slip: the counter is formatted but not stored
GenerateIdNoStore(c) ==
    [c |-> [c EXCEPT !.ids = Append(@, FormatId(c.counter + 1))],
     id |-> FormatId(c.counter + 1)]

\* lines 38-41
GenerateId(c) ==
    LET n == c.counter + 1
    IN [c |-> [c EXCEPT !.counter = n, !.ids = Append(@, FormatId(n))],
        id |-> FormatId(n)]

ConnectExc(how) == CASE how = "refused" -> "ConnectionRefusedError"
                     [] how = "timeout" -> "socket.timeout"
                     [] how = "oserror" -> "OSError"
                     [] OTHER -> "none"

ConnectHows == {"ok", "refused", "timeout", "oserror"}

\* a plausible slip: a failed connect is swallowed
ConnectSwallow(c, how) ==
    IF c.socket = None
    THEN LET s == c.nsock + 1
         IN [c |-> [c EXCEPT !.socket = s, !.nsock = s, !.open = @ \cup {s},
                             !.link = IF how = "ok" THEN "up" ELSE "unconnected",
                             !.wire = Append(@, WireEvent("connect", "", NoId, s, TRUE,
                                                          how = "ok", NoRes))],
             exc |-> "none"]
    ELSE [c |-> c, exc |-> "none"]

\* a plausible slip: no test of self._socket, every call opens a socket
ConnectAlways(c, how) ==
    LET s == c.nsock + 1
    IN [c |-> [c EXCEPT !.socket = s, !.nsock = s, !.open = @ \cup {s},
                        !.link = IF how = "ok" THEN "up" ELSE "unconnected",
                        !.wire = Append(@, WireEvent("connect", "", NoId, s, TRUE,
                                                     how = "ok", NoRes))],
        exc |-> ConnectExc(how)]

\* lines 43-48: the socket object is stored before it is connected
Connect(c, how) ==
    IF c.socket = None
    THEN LET s == c.nsock + 1
         IN [c |-> [c EXCEPT !.socket = s, !.nsock = s, !.open = @ \cup {s},
                             !.link = IF how = "ok" THEN "up" ELSE "unconnected",
                             !.wire = Append(@, WireEvent("connect", "", NoId, s, TRUE,
                                                          how = "ok", NoRes))],
             exc |-> ConnectExc(how)]
    ELSE [c |-> c, exc |-> "none"]

\* a plausible slip: the reference is dropped and the socket never closed
DisconnectNoClose(c) ==
    IF c.socket # None
    THEN [c EXCEPT !.socket = None, !.link = "none", !.owed = <<>>]
    ELSE c

\* lines 50-54; a socket object is always true
Disconnect(c) ==
    IF c.socket # None
    THEN [c EXCEPT !.open = @ \ {c.socket}, !.socket = None, !.link = "none",
                   !.owed = <<>>,
                   !.wire = Append(@, WireEvent("close", "", NoId, c.socket, TRUE,
                                                FALSE, NoRes))]
    ELSE c

\* a plausible slip: the flag alone decides, self._socket is not tested
UsesOwnedByFlag(c, use_persistent) == use_persistent

\* line 84: the branch _send_command takes
UsesOwned(c, use_persistent) == use_persistent /\ c.socket # None

\* what the peer and the network can do with the exchange about to start
Exchanges(c, use_persistent) ==
    IF UsesOwned(c, use_persistent)
    THEN PersistentOutcomesOn(c.link)
            \cup (IF c.owed # <<>> THEN LateOutcomes(c.link) ELSE {})
    ELSE EphemeralOutcomes

\* the connections established while the exchange runs: the owned one when
\* it is connected, and the ephemeral one of line 110 when its request went out
ConnsDuring(c, owned, s, o) ==
    (IF c.socket # None /\ c.link = "up" THEN {c.socket} ELSE {})
       \cup (IF ~owned /\ o.sent THEN {s} ELSE {})

\* a plausible slip: the ephemeral socket is created without with and closed
\* on no path
WithSocketLeak(opened, s) == opened \cup {s}

\* line 110: the with statement closes the socket s it created when the
\* block is left, by return or by exception
WithSocket(opened, s) == opened \ {s}

\* a plausible slip: a command that failed is sent once more
TryOnceMore(w, e, o) == IF o.exc # "none" THEN Append(Append(w, e), e) ELSE Append(w, e)

\* lines 83-138: the try body runs once, whatever its outcome; no loop
\* surrounds it and no except clause sends again
TryOnce(w, e, o) == Append(w, e)

\* lines 83-138, after the request was built with the ID id: the try
\* statement with the outcome o of its body
Exchanged(c, id, cmd, args, use_persistent, o) ==
    LET request == [id |-> id, cmd |-> cmd, args |-> args]
        owned == UsesOwned(c, use_persistent)
        s == IF owned THEN c.socket ELSE c.nsock + 1
        about == CASE o.exc # "none" -> NoId
                   [] o.late -> Head(c.owed)
                   [] OTHER -> request.id
        r == ExceptClauses(o, request.id, about)
        c1 == [c EXCEPT !.lastSend = [id |-> request.id, cmd |-> cmd, args |-> args,
                                      owned |-> owned, out |-> o,
                                      conns |-> ConnsDuring(c, owned, s, o),
                                      about |-> about,
                                      raised |-> r.raised, val |-> r.val],
                        !.nsock = IF owned THEN @ ELSE s,
                        !.open = IF owned THEN @ ELSE WithSocket(@ \cup {s}, s),
                        !.link = IF owned THEN LinkAfter(@, o) ELSE @,
                        !.owed = IF owned THEN OwedAfter(@, request.id, o) ELSE @,
                        !.wire = TryOnce(@, WireEvent("send", cmd, request.id, s, owned,
                                                      o.sent, r), o)]
    IN [c |-> c1, raised |-> r.raised, val |-> r.val]

\* a plausible slip: a command that failed gives its ID back
SendCommandIdOnSuccess(c, cmd, args, use_persistent, o) ==
    LET g == GenerateId(c)
    IN Exchanged(IF o.exc = "none" THEN g.c ELSE c, g.id, cmd, args, use_persistent, o)

\* a plausible slip: a persistent exchange that failed closes and drops the
\* owned socket
SendCommandClosesOnError(c, cmd, args, use_persistent, o) ==
    LET g == GenerateId(c)
        x == Exchanged(g.c, g.id, cmd, args, use_persistent, o)
    IN IF UsesOwned(c, use_persistent) /\ o.exc # "none"
       THEN [x EXCEPT !.c.socket = None, !.c.open = @ \ {c.socket}, !.c.link = "none"]
       ELSE x

\* lines 56-138; o is the outcome of the try body
SendCommand(c, cmd, args, use_persistent, o) ==
    LET g == GenerateId(c)
    IN Exchanged(g.c, g.id, cmd, args, use_persistent, o)

(***************************************************************************)
(* The commands (lines 140-234).  Each gives the client after the call and *)
(* what the call raised or returned.                                       *)
(***************************************************************************)
Ping(c, o) == SendCommand(c, "PING", <<>>, FALSE, o)

\* args = [filename] if filename else []
Save(c, filename, o) ==
    SendCommand(c, "SAVE", IF filename # "" THEN <<filename>> ELSE <<>>, FALSE, o)

Export(c, filename, o) == SendCommand(c, "EXPORT", <<filename>>, FALSE, o)

Line(c, x1, y1, x2, y2, o) == SendCommand(c, "LINE", <<x1, y1, x2, y2>>, FALSE, o)

Circle(c, x, y, radius, o) == SendCommand(c, "CIRCLE", <<x, y, radius>>, FALSE, o)

\* a plausible slip: text goes out on the owned connection when there is one
TextOnOwned(c, x, y, content, height, o) ==
    SendCommand(c, "TEXT", <<x, y, content, height>>, TRUE, o)

Text(c, x, y, content, height, o) ==
    SendCommand(c, "TEXT", <<x, y, content, height>>, FALSE, o)

\* lines 215-223: connect() is outside any try
BeginBatch(c, how, o) ==
    LET k == Connect(c, how)
    IN IF k.exc # "none" THEN [c |-> k.c, raised |-> k.exc, val |-> Raise(k.exc).val]
       ELSE SendCommand(k.c, "BEGIN_BATCH", <<>>, TRUE, o)

\* a plausible slip: the connection is released only when END_BATCH succeeded
EndBatchKeepsOnError(c, o) ==
    LET r == SendCommand(c, "END_BATCH", <<>>, TRUE, o)
    IN IF r.raised # "none" \/ ~r.val.isdict \/ r.val.status # "ok" THEN r
       ELSE [c |-> Disconnect(r.c), raised |-> "none", val |-> r.val]

\* lines 225-234
EndBatch(c, o) ==
    LET r == SendCommand(c, "END_BATCH", <<>>, TRUE, o)
    IN IF r.raised # "none" THEN r
       ELSE [c |-> Disconnect(r.c), raised |-> "none", val |-> r.val]

\* lines 284-287: __enter__ connects
Enter(c, how) == Connect(c, how)

\* a plausible slip: __exit__ leaves the connection as it is
ExitKeepsOpen(c) == c

\* lines 289-291: __exit__ disconnects, whatever exc_type is
Exit(c) == Disconnect(c)

\* ZCADTCPClient(host, port): lines 32-36
NewClient == [counter |-> 0, socket |-> None, link |-> "none", owed |-> <<>>,
              nsock |-> 0, open |-> {}, ids |-> <<>>,
              lastSend |-> [id |-> NoId, cmd |-> "", args |-> <<>>, owned |-> FALSE,
                            out |-> Outcome(Exc("none"), FALSE, FALSE), conns |-> {},
                            about |-> NoId, raised |-> "none", val |-> NoRes.val],
              wire |-> <<>>]

\* a plausible slip: any dict that ping() returns counts as reachable
TestConnectionAnyReply(o) ==
    LET r == Ping(NewClient, o)
    IN [c |-> r.c, returns |-> r.raised = "none" /\ r.val.isdict]

\* lines 295-311: ping() on a new client; result.get raises AttributeError
\* on a reply that is no dict, and except Exception turns that into False
TestConnection(o) ==
    LET r == Ping(NewClient, o)
    IN [c |-> r.c,
        returns |-> IF r.raised # "none" \/ ~r.val.isdict THEN FALSE
                    ELSE r.val.status = "ok"]

(***************************************************************************)
(* random_lines (lines 236-282), one operator per stretch between sends.   *)
(* A stretch gives the local list, what is left pending for the end of the *)
(* finally block (a return value or an exception), and where control goes. *)
(***************************************************************************)
NoRet == [kind |-> "none", val |-> <<>>, exc |-> "none"]
Returned(v) == [kind |-> "returned", val |-> v, exc |-> "none"]
Raised(e) == [kind |-> "raised", val |-> <<>>, exc |-> e]

Stretch(res, pend, next) == [results |-> res, pending |-> pend, next |-> next]

\* a plausible slip: the loop runs one iteration short
RangeDoneEarly(k, n) == k + 1 >= n

\* range(n) has nothing left after k iterations
RangeDone(k, n) == k >= n

\* a plausible slip: a failed BEGIN_BATCH is appended and the batch goes on
AfterBeginNoCheck(r, res, n) ==
    IF r.raised # "none" THEN Stretch(res, Raised(r.raised), "finally")
    ELSE IF ~r.val.isdict THEN Stretch(res, Raised("AttributeError"), "finally")
    ELSE Stretch(Append(res, r.val), NoRet, IF RangeDone(0, n) THEN "finally" ELSE "loop")

\* lines 256-261 and the loop's first test; r is what _send_command gave
AfterBegin(r, res, n) ==
    IF r.raised # "none" THEN Stretch(res, Raised(r.raised), "finally")
    ELSE IF ~r.val.isdict THEN Stretch(res, Raised("AttributeError"), "finally")
    ELSE IF r.val.status # "ok"
    THEN Stretch(res,
                 Returned(<<Response(TRUE, "error",
                                     "Failed to start batch mode: "
                                        \o (IF r.val.error = "absent" THEN "unknown"
                                            ELSE r.val.error),
                                     NoId)>>),
                 "finally")
    ELSE Stretch(Append(res, r.val), NoRet, IF RangeDone(0, n) THEN "finally" ELSE "loop")

\* a plausible slip: the loop stops at the first LINE that did not succeed
AfterLineStopOnError(r, res, k, n) ==
    IF r.raised # "none" THEN Stretch(res, Raised(r.raised), "finally")
    ELSE Stretch(Append(res, r.val), NoRet,
                 IF RangeDone(k + 1, n) \/ r.val.status # "ok" THEN "finally" ELSE "loop")

\* lines 270-272 and the loop's next test; k LINE commands were issued before
AfterLine(r, res, k, n) ==
    IF r.raised # "none" THEN Stretch(res, Raised(r.raised), "finally")
    ELSE Stretch(Append(res, r.val), NoRet,
                 IF RangeDone(k + 1, n) THEN "finally" ELSE "loop")

\* a plausible slip: END_BATCH moved out of the finally block, after the loop
FinallyEndOnlyAfterLoop(c, res, pend, o) ==
    IF pend.kind # "none" THEN [c |-> Disconnect(c), results |-> res, ret |-> pend]
    ELSE LET r == SendCommand(c, "END_BATCH", <<>>, TRUE, o)
         IN [c |-> Disconnect(r.c), results |-> Append(res, r.val),
             ret |-> Returned(Append(res, r.val))]

\* lines 274-282: the finally block, then the pending return or exception,
\* or line 282.  A pending return value was built before the block ran.
Finally(c, res, pend, o) ==
    LET r == SendCommand(c, "END_BATCH", <<>>, TRUE, o)
        all == Append(res, r.val)
    IN IF r.raised # "none" THEN [c |-> r.c, results |-> res, ret |-> Raised(r.raised)]
       ELSE [c |-> Disconnect(r.c), results |-> all,
             ret |-> IF pend.kind # "none" THEN pend ELSE Returned(all)]

\* floats beyond the largest finite one, and the result of inf * 0.0
Inf == MaxFloat + 1
NaN == MaxFloat + 2

\* a float result: what exceeds the largest finite float becomes infinite
FloatOf(x) == IF x > MaxFloat THEN Inf ELSE IF x < -MaxFloat THEN -Inf ELSE x

\* random.uniform(a, b) for finite a and b is a + (b - a) * random(), with
\* random() in [0.0, 1.0): a value between the two ends, ends included,
\* unless b - a overflows; the product is then infinite, or nan when
\* random() gives 0.0, and so is the sum; with a nan end every result is nan
Uniform(a, b) ==
    LET width == FloatOf(b - a)
    IN CASE a = NaN \/ b = NaN -> {NaN}
         [] width = Inf -> {Inf, NaN}
         [] width = -Inf -> {-Inf, NaN}
         [] OTHER -> IF a <= b THEN a..b ELSE b..a

\* lines 265-268: four draws; the model samples those with x2 = y1, y2 = x1
Draws(a, b) == {<<x1, y1, y1, x1>> : x1 \in Uniform(a, b), y1 \in Uniform(a, b)}

(***************************************************************************)
(* The state machine.                                                      *)
(***************************************************************************)
\* the proxy's handler threads (flask_server.py), none started
Threads == 1..MaxThreads

ReadyThread == [pc |-> "ready", handler |-> "none", cmd |-> "", persistent |-> FALSE,
                id |-> NoId, sock |-> None, n |-> 0, i |-> 0]

NoNet == [log |-> <<>>, answered |-> {}, replies |-> <<>>, closes |-> <<>>]

NoSend == NewClient.lastSend

\* no exchange is in progress
NoRx == [pc |-> "idle", id |-> NoId, cmd |-> "", buf |-> <<>>, had |-> <<>>,
         chunk |-> <<>>, first |-> <<>>, n |-> 0]

\* no request has reached the proxy
NoHttp == [handler |-> "none", code |-> 0, message |-> "", requested |-> 0, created |-> 0]

\* uzvipcclient.py lines 39-44: a new ZCADIPCClient, no call made on it
NoIpc == [c |-> NewClient, pc |-> "idle", results |-> <<>>, pending |-> NoRet,
          ret |-> NoRet]

\* lines 23-36: no I/O at construction
Init ==
    /\ counter = 0
    /\ socket = None
    /\ link = "none"
    /\ owed = <<>>
    /\ nsock = 0
    /\ open = {}
    /\ ids = <<>>
    /\ lastSend = NoSend
    /\ wire = <<>>
    /\ op = "none"
    /\ argv = <<>>
    /\ pc = "idle"
    /\ count = 0
    /\ lo = 0
    /\ hi = 0
    /\ i = 0
    /\ results = <<>>
    /\ pending = NoRet
    /\ ret = NoRet
    /\ inWith = FALSE
    /\ threads = [t \in Threads |-> ReadyThread]
    /\ net = NoNet
    /\ http = NoHttp
    /\ rx = NoRx
    /\ ipc = NoIpc

\* the client as an operation finds it: wire and lastSend start afresh
Fresh == [Self EXCEPT !.wire = <<>>, !.lastSend = NoSend]

\* the caller is free to make a call: no operation is running, and no
\* exception is on its way out of a with-block
Free == pc = "idle" /\ ~(inWith /\ ret.kind = "raised")

\* the caller may start an operation that issues n commands
CanCall(n) == Free /\ counter + n <= MaxCmds /\ nsock < MaxSocks

\* an operation other than random_lines has ended with r, the caller then
\* being inside a with-block or not
EndsIn(name, r, w) ==
    /\ op' = name
    /\ pc' = "idle"
    /\ ret' = r
    /\ count' = 0
    /\ lo' = 0
    /\ hi' = 0
    /\ i' = 0
    /\ results' = <<>>
    /\ pending' = NoRet
    /\ inWith' = w

Ends(name, r) == EndsIn(name, r, inWith) /\ argv' = <<>>

\* a command has ended with what _send_command gave
EndsWith(name, r) ==
    /\ Becomes(r.c)
    /\ Ends(name, IF r.raised # "none" THEN Raised(r.raised) ELSE Returned(<<r.val>>))

\* the same for a command called with the arguments a
EndsCall(name, a, r) ==
    /\ Becomes(r.c)
    /\ EndsIn(name, IF r.raised # "none" THEN Raised(r.raised) ELSE Returned(<<r.val>>),
              inWith)
    /\ argv' = a

\* sample arguments of the single commands; the empty filename stands for
\* every false value, None included
Filenames == {"", "a.dxf"}

\* save(filename=None)
SaveArgs == {<<>>} \cup {<<f>> : f \in Filenames}

\* text(x, y, content, height=2.5)
DefaultHeight == "2.5"

TextArgs == {<<1, 2, "Test">>, <<1, 2, "Test", "5.0">>}

CallGenerateId(limit) ==
    /\ Free
    /\ counter < limit
    /\ Becomes(GenerateId(Fresh).c)
    /\ Ends("_generate_id", NoRet)

CallConnect ==
    /\ CanCall(0)
    /\ \E how \in ConnectHows :
          LET k == Connect(Fresh, how)
          IN /\ Becomes(k.c)
             /\ Ends("connect", IF k.exc # "none" THEN Raised(k.exc) ELSE Returned(<<>>))

CallDisconnect ==
    /\ Free
    /\ Becomes(Disconnect(Fresh))
    /\ Ends("disconnect", Returned(<<>>))

\* test_connection() builds a client of its own; the model lets the caller
\* use it before the instance has issued a command
CallTestConnection ==
    /\ Free
    /\ counter = 0
    /\ nsock = 0
    /\ \E o \in EphemeralOutcomes :
          LET t == TestConnection(o)
          IN /\ lastSend' = t.c.lastSend
             /\ Ends("test_connection", Returned(<<t.returns>>))
    /\ UNCHANGED <<counter, socket, link, owed, nsock, open, ids, wire, threads, net, http,
                   rx, ipc>>

\* lines 284-287: the with statement calls __enter__; the block is entered
\* when it returns
CallEnter ==
    /\ CanCall(0)
    /\ ~inWith
    /\ \E how \in ConnectHows :
          LET k == Enter(Fresh, how)
          IN /\ Becomes(k.c)
             /\ EndsIn("__enter__",
                       IF k.exc # "none" THEN Raised(k.exc) ELSE Returned(<<>>),
                       k.exc = "none")
             /\ argv' = <<>>

\* lines 289-291: the block is left, after its last statement or with the
\* exception an operation raised; __exit__ returns None, so that exception
\* goes on to the caller
CallExit ==
    /\ pc = "idle"
    /\ inWith
    /\ Becomes(Exit(Fresh))
    /\ EndsIn("__exit__", IF ret.kind = "raised" THEN ret ELSE Returned(<<>>), FALSE)
    /\ argv' = <<>>

\* a statement of the block that is no call on the client raises, like a
\* failing assertion of test_context_manager
WithBodyRaises ==
    /\ Free
    /\ inWith
    /\ Becomes(Fresh)
    /\ Ends("with-body", Raised("AssertionError"))

CallPing ==
    /\ CanCall(1)
    /\ \E o \in Exchanges(Fresh, FALSE) : EndsCall("ping", <<>>, Ping(Fresh, o))

CallSave ==
    /\ CanCall(1)
    /\ \E a \in SaveArgs, o \in Exchanges(Fresh, FALSE) :
          EndsCall("save", a, Save(Fresh, IF a = <<>> THEN "" ELSE a[1], o))

CallExport ==
    /\ CanCall(1)
    /\ \E o \in Exchanges(Fresh, FALSE) :
          EndsCall("export", <<"a.dxf">>, Export(Fresh, "a.dxf", o))

CallLine ==
    /\ CanCall(1)
    /\ \E o \in Exchanges(Fresh, FALSE) :
          EndsCall("line", <<1, 2, 3, 4>>, Line(Fresh, 1, 2, 3, 4, o))

CallCircle ==
    /\ CanCall(1)
    /\ \E o \in Exchanges(Fresh, FALSE) :
          EndsCall("circle", <<1, 2, 3>>, Circle(Fresh, 1, 2, 3, o))

CallText ==
    /\ CanCall(1)
    /\ \E a \in TextArgs, o \in Exchanges(Fresh, FALSE) :
          EndsCall("text", a,
                   Text(Fresh, a[1], a[2], a[3],
                        IF Len(a) = 4 THEN a[4] ELSE DefaultHeight, o))

CallBeginBatch ==
    /\ CanCall(1)
    /\ \E how \in ConnectHows :
          \E o \in Exchanges(Connect(Fresh, how).c, TRUE) :
             EndsWith("begin_batch", BeginBatch(Fresh, how, o))

CallEndBatch ==
    /\ CanCall(1)
    /\ \E o \in Exchanges(Fresh, TRUE) : EndsWith("end_batch", EndBatch(Fresh, o))

\* sample coordinate ranges: a narrow one for every count, and for a burst
\* of one line the widest of finite ends as well
RangesFor(n) == IF n = 1 THEN {<<0, 1>>, <<-MaxFloat, MaxFloat>>} ELSE {<<0, 1>>}

\* lines 249-252: results = [], then connect() outside the try
RandomLinesStart ==
    \E n \in 0..MaxCount, how \in ConnectHows : \E range \in RangesFor(n) :
        /\ CanCall(n + 2)
        /\ LET k == Connect(Fresh, how)
           IN /\ Becomes(k.c)
              /\ pc' = IF k.exc # "none" THEN "idle" ELSE "begin"
              /\ ret' = IF k.exc # "none" THEN Raised(k.exc) ELSE NoRet
        /\ op' = "random_lines"
        /\ argv' = <<>>
        /\ count' = n
        /\ lo' = range[1]
        /\ hi' = range[2]
        /\ i' = 0
        /\ results' = <<>>
        /\ pending' = NoRet
        /\ inWith' = inWith

RandomLinesBegin ==
    /\ pc = "begin"
    /\ \E o \in Exchanges(Self, TRUE) :
          LET r == SendCommand(Self, "BEGIN_BATCH", <<>>, TRUE, o)
              t == AfterBegin(r, results, count)
          IN /\ Becomes(r.c)
             /\ results' = t.results
             /\ pending' = t.pending
             /\ pc' = t.next
    /\ UNCHANGED <<op, argv, count, lo, hi, i, ret, inWith>>

RandomLinesLine ==
    /\ pc = "loop"
    /\ \E d \in Draws(lo, hi) :
          \E o \in Exchanges(Self, TRUE) :
             LET r == SendCommand(Self, "LINE", d, TRUE, o)
                 t == AfterLine(r, results, i, count)
             IN /\ Becomes(r.c)
                /\ results' = t.results
                /\ pending' = t.pending
                /\ pc' = t.next
    /\ i' = i + 1
    /\ UNCHANGED <<op, argv, count, lo, hi, ret, inWith>>

RandomLinesFinally ==
    /\ pc = "finally"
    /\ \E o \in Exchanges(Self, TRUE) :
          LET f == Finally(Self, results, pending, o)
          IN /\ Becomes(f.c)
             /\ results' = f.results
             /\ ret' = f.ret
    /\ pc' = "idle"
    /\ UNCHANGED <<op, argv, count, lo, hi, i, pending, inWith>>

Next ==
    \/ CallGenerateId(MaxCmds)
    \/ CallConnect
    \/ CallDisconnect
    \/ CallTestConnection
    \/ CallEnter
    \/ CallExit
    \/ WithBodyRaises
    \/ CallPing
    \/ CallSave
    \/ CallExport
    \/ CallLine
    \/ CallCircle
    \/ CallText
    \/ CallBeginBatch
    \/ CallEndBatch
    \/ RandomLinesStart
    \/ RandomLinesBegin
    \/ RandomLinesLine
    \/ RandomLinesFinally

Spec == Init /\ [][Next]_vars

(***************************************************************************)
(* The ID generator late in an instance's life: the instance has issued    *)
(* some number of commands, all by pings on ephemeral connections, has    *)
(* just been told to disconnect, and _generate_id is called as the tests   *)
(* call it.                                                                *)
(***************************************************************************)
StartCounters == {0, 80, 980, 9900, 9920, 9940, 9960, 9980, 9995}

InitIds ==
    /\ counter \in StartCounters
    /\ socket = None
    /\ link = "none"
    /\ owed = <<>>
    /\ nsock = counter
    /\ open = {}
    /\ ids = [k \in 1..counter |-> FormatId(k)]
    /\ lastSend = NoSend
    /\ wire = <<>>
    /\ op = IF counter = 0 THEN "none" ELSE "disconnect"
    /\ argv = <<>>
    /\ pc = "idle"
    /\ count = 0
    /\ lo = 0
    /\ hi = 0
    /\ i = 0
    /\ results = <<>>
    /\ pending = NoRet
    /\ ret = IF counter = 0 THEN NoRet ELSE Returned(<<>>)
    /\ inWith = FALSE
    /\ threads = [t \in Threads |-> ReadyThread]
    /\ net = NoNet
    /\ http = NoHttp
    /\ rx = NoRx
    /\ ipc = NoIpc

NextIds == \E s \in StartCounters : s <= counter /\ CallGenerateId(s + MaxIdCalls)

SpecIds == InitIds /\ [][NextIds]_vars

(***************************************************************************)
(* The HTTP proxy (src/server/flask_server.py) runs with threaded=True and *)
(* hands the one process-wide client to every request handler, without a   *)
(* lock.  Each handler thread makes one call, ping() or random_lines(), on *)
(* that client; a thread can be preempted wherever it blocks on a socket   *)
(* and between the test and the assignment of connect().  _generate_id,    *)
(* the test of line 84 and sendall are taken as one step, and so are the   *)
(* two statements of disconnect().  The peer accepts every connection and  *)
(* answers 'ok', each connection's requests in the order they came.        *)
(***************************************************************************)
callerVars == <<owed, lastSend, wire, op, argv, pc, count, lo, hi, i, results, pending,
                ret, inWith, http, rx, ipc>>

\* thread t goes on to send cmd
ToSend(th, cmd, persistent) ==
    [th EXCEPT !.pc = "send", !.cmd = cmd, !.persistent = persistent]

\* get_zcad_client() and the call of the handler: ping_zcad (line 67) or
\* draw_random_lines (line 162)
ThreadStart(t) ==
    /\ threads[t].pc = "ready"
    /\ \/ threads' = [threads EXCEPT ![t] = [ToSend(@, "PING", FALSE) EXCEPT
                                                !.handler = "ping_zcad"]]
       \/ \E n \in 1..MaxBurst :
             threads' = [threads EXCEPT ![t] = [@ EXCEPT !.pc = "test",
                                                         !.handler = "draw_random_lines",
                                                         !.n = n]]
    /\ UNCHANGED <<counter, socket, link, nsock, open, ids, net>>
    /\ UNCHANGED callerVars

\* connect(), line 45: if self._socket is None
ThreadConnectTest(t) ==
    /\ threads[t].pc = "test"
    /\ threads' = [threads EXCEPT ![t] = IF socket = None THEN [@ EXCEPT !.pc = "create"]
                                         ELSE ToSend(@, "BEGIN_BATCH", TRUE)]
    /\ UNCHANGED <<counter, socket, link, nsock, open, ids, net>>
    /\ UNCHANGED callerVars

\* connect(), lines 46-48: a new socket is stored in self._socket, whatever
\* is there by now, and connected
ThreadConnectCreate(t) ==
    /\ threads[t].pc = "create"
    /\ nsock' = nsock + 1
    /\ socket' = nsock + 1
    /\ open' = open \cup {nsock + 1}
    /\ link' = "up"
    /\ threads' = [threads EXCEPT ![t] = ToSend(@, "BEGIN_BATCH", TRUE)]
    /\ UNCHANGED <<counter, ids, net>>
    /\ UNCHANGED callerVars

\* _send_command, lines 72-87 or 72-115: the ID, the branch, the socket and
\* the request written to it
ThreadSend(t) ==
    /\ threads[t].pc = "send"
    /\ LET th == threads[t]
           g == GenerateId(Self)
           owned == UsesOwned(Self, th.persistent)
           s == IF owned THEN socket ELSE nsock + 1
       IN /\ counter' = g.c.counter
          /\ ids' = g.c.ids
          /\ nsock' = IF owned THEN nsock ELSE s
          /\ open' = IF owned THEN open ELSE open \cup {s}
          /\ net' = [net EXCEPT !.log = Append(@, [id |-> g.id, cmd |-> th.cmd, sock |-> s,
                                                   persistent |-> owned, thread |-> t])]
          /\ threads' = [threads EXCEPT ![t] = [@ EXCEPT !.pc = "recv", !.id = g.id,
                                                         !.sock = s, !.persistent = owned]]
    /\ UNCHANGED <<socket, link>>
    /\ UNCHANGED callerVars

\* the replies waiting in the buffer of socket s, oldest first
RepliesOn(s) == SelectSeq(net.replies, LAMBDA r : r.sock = s)

\* the buffers without the oldest reply on socket s
RECURSIVE WithoutFirstOn(_, _)
WithoutFirstOn(q, s) ==
    IF q = <<>> THEN <<>>
    ELSE IF Head(q).sock = s THEN Tail(q)
    ELSE <<Head(q)>> \o WithoutFirstOn(Tail(q), s)

\* what the thread does with the result r of its command, lines 147 and
\* 256-280: the next command to send, the teardown, or the return
ThreadGoesOn(th, r) ==
    CASE th.cmd = "PING" -> [th EXCEPT !.pc = "done"]
      [] th.cmd = "BEGIN_BATCH" ->
            LET a == AfterBegin(r, <<>>, th.n)
            IN IF a.next = "loop" THEN ToSend(th, "LINE", TRUE)
               ELSE ToSend(th, "END_BATCH", TRUE)
      [] th.cmd = "LINE" ->
            LET a == AfterLine(r, <<>>, th.i, th.n)
            IN IF a.next = "loop" THEN [ToSend(th, "LINE", TRUE) EXCEPT !.i = @ + 1]
               ELSE [ToSend(th, "END_BATCH", TRUE) EXCEPT !.i = @ + 1]
      [] OTHER -> [th EXCEPT !.pc = "disconnect"]

\* _send_command, lines 89-107 or 117-125 and the except clauses: the thread
\* decodes the oldest reply in its socket's buffer, whichever request it
\* answers, or the read fails (timeout, or the socket was closed under it)
ThreadRecv(t) ==
    /\ threads[t].pc = "recv"
    /\ LET th == threads[t]
           here == IF th.sock \in open THEN RepliesOn(th.sock) ELSE <<>>
           o == IF here # <<>> THEN Outcome(Val("ok"), TRUE, FALSE)
                ELSE IF th.sock \in open THEN Outcome(Exc("socket.timeout"), TRUE, FALSE)
                ELSE Outcome(Exc("OSError"), TRUE, TRUE)
           r == ExceptClauses(o, th.id, IF here # <<>> THEN Head(here).id ELSE NoId)
       IN /\ net' = IF here # <<>>
                    THEN [net EXCEPT !.replies = WithoutFirstOn(@, th.sock)]
                    ELSE net
          /\ open' = IF th.persistent THEN open ELSE open \ {th.sock}
          /\ threads' = [threads EXCEPT ![t] = ThreadGoesOn(th, r)]
    /\ UNCHANGED <<counter, socket, link, nsock, ids>>
    /\ UNCHANGED callerVars

\* disconnect(), lines 52-54, at the end of the finally block
ThreadDisconnect(t) ==
    /\ threads[t].pc = "disconnect"
    /\ LET d == Disconnect(Self)
       IN /\ socket' = d.socket
          /\ link' = d.link
          /\ open' = d.open
    /\ net' = IF socket # None
              THEN [net EXCEPT !.closes = Append(@, [sock |-> socket, thread |-> t])]
              ELSE net
    /\ threads' = [threads EXCEPT ![t] = [@ EXCEPT !.pc = "done"]]
    /\ UNCHANGED <<counter, nsock, ids>>
    /\ UNCHANGED callerVars

\* the peer answers the oldest unanswered request of a connection still open
PeerAnswers ==
    \E j \in 1..Len(net.log) :
        LET e == net.log[j]
        IN /\ e.id \notin net.answered
           /\ e.sock \in open
           /\ \A k \in 1..(j - 1) :
                 net.log[k].sock = e.sock => net.log[k].id \in net.answered
           /\ net' = [net EXCEPT !.answered = @ \cup {e.id},
                                 !.replies = Append(@, [sock |-> e.sock, id |-> e.id])]
           /\ UNCHANGED <<counter, socket, link, nsock, open, ids, threads>>
           /\ UNCHANGED callerVars

NextThreads ==
    \/ \E t \in Threads : ThreadStart(t)
    \/ \E t \in Threads : ThreadConnectTest(t)
    \/ \E t \in Threads : ThreadConnectCreate(t)
    \/ \E t \in Threads : ThreadSend(t)
    \/ \E t \in Threads : ThreadRecv(t)
    \/ \E t \in Threads : ThreadDisconnect(t)
    \/ PeerAnswers

SpecThreads == Init /\ [][NextThreads]_vars

(***************************************************************************)
(* The HTTP proxy, one request at a time: the handlers ping_zcad,           *)
(* draw_random_lines and draw_single_line of src/server/flask_server.py,   *)
(* each on the process-wide client that get_zcad_client() creates once.    *)
(* A handler validates its request, makes one call on the client and turns *)
(* what the call returned or raised into a status code and a message.      *)
(* draw_random_lines is split where random_lines is.                       *)
(***************************************************************************)
Http(handler, code, message, requested, created) ==
    [handler |-> handler, code |-> code, message |-> message, requested |-> requested,
     created |-> created]

\* d.get('error', default) on a dict d
GetError(d, default) == IF d.error = "absent" THEN default ELSE d.error

\* flask_server.py lines 65-88; r is what client.ping() gave.  result.get
\* on a reply that is no dict raises AttributeError, caught by line 83
PingZcad(r) ==
    IF r.raised # "none" THEN Http("ping_zcad", 503, StrOf(r.raised), 0, 0)
    ELSE IF ~r.val.isdict THEN Http("ping_zcad", 503, StrOf("AttributeError"), 0, 0)
    ELSE IF r.val.status = "ok" THEN Http("ping_zcad", 200, "ZCAD connected", 0, 0)
    ELSE Http("ping_zcad", 503, GetError(r.val, "Unknown error"), 0, 0)

\* flask_server.py lines 264-286; r is what client.line() gave
DrawSingleLine(r) ==
    IF r.raised # "none" THEN Http("draw_single_line", 500, StrOf(r.raised), 0, 0)
    ELSE IF ~r.val.isdict THEN Http("draw_single_line", 500, StrOf("AttributeError"), 0, 0)
    ELSE IF r.val.status = "ok" THEN Http("draw_single_line", 200, "Line created", 0, 0)
    ELSE Http("draw_single_line", 500, GetError(r.val, "Failed to create line"), 0, 0)

\* the interpreters the proxy runs on: socket.timeout is TimeoutError from
\* Python 3.10 on, and before that a subclass of OSError that the clause of
\* line 212 does not catch
Interpreters == {"socket.timeout is TimeoutError", "socket.timeout is not TimeoutError"}

\* sum(1 for r in results[:-1] if r.get('status') == 'ok'), line 183, for
\* results[:-1] = q, all of them dicts
RECURSIVE CountOk(_)
CountOk(q) == IF q = <<>> THEN 0
              ELSE (IF Head(q).status = "ok" THEN 1 ELSE 0) + CountOk(Tail(q))

\* flask_server.py lines 172-224; r is how random_lines(count = n) ended
DrawRandomLines(r, n, python) ==
    LET h == "draw_random_lines" IN
    IF r.kind = "raised"
    THEN CASE r.exc = "ConnectionRefusedError" ->
                 Http(h, 503, "Connection refused - is ZCAD running?", n, 0)
           [] r.exc = "socket.timeout" /\ python = "socket.timeout is TimeoutError" ->
                 Http(h, 503, "Connection timeout", n, 0)
           [] OTHER -> Http(h, 500, StrOf(r.exc), n, 0)
    ELSE IF r.val = <<>> THEN Http(h, 500, "Empty response from ZCAD", n, 0)
    ELSE LET last_result == r.val[Len(r.val)]
             before == SubSeq(r.val, 1, Len(r.val) - 1)
         IN IF ~last_result.isdict THEN Http(h, 500, StrOf("AttributeError"), n, 0)
            ELSE IF last_result.status = "ok"
            THEN IF \E k \in 1..Len(before) : ~before[k].isdict
                 THEN Http(h, 500, StrOf("AttributeError"), n, 0)
                 ELSE Http(h, 200, "lines created in ZCAD", n, CountOk(before))
            ELSE Http(h, 500, GetError(last_result, "Unknown error in batch"), n, 0)

\* a handler answered the request body without a call on the client
Answers(h, body) ==
    /\ Sets(Fresh)
    /\ EndsIn("none", NoRet, FALSE)
    /\ argv' = body
    /\ http' = h

\* POST /api/zcad/ping
ProxyPing ==
    /\ CanCall(1)
    /\ \E o \in Exchanges(Fresh, FALSE) :
          LET r == Ping(Fresh, o)
          IN /\ Sets(r.c)
             /\ EndsIn("ping", IF r.raised # "none" THEN Raised(r.raised)
                               ELSE Returned(<<r.val>>), FALSE)
             /\ argv' = <<>>
             /\ http' = PingZcad(r)
    /\ UNCHANGED <<threads, net, rx, ipc>>

\* POST /api/zcad/line: lines 245-262 answer 400 to a body that is no JSON
\* or whose coordinates float() rejects
ProxyLine ==
    /\ CanCall(1)
    /\ \E is_json \in BOOLEAN, parses \in BOOLEAN :
          IF ~is_json
          THEN Answers(Http("draw_single_line", 400,
                            "Content-Type must be application/json", 0, 0), <<>>)
          ELSE IF ~parses
          THEN Answers(Http("draw_single_line", 400, "Invalid coordinates", 0, 0), <<>>)
          ELSE \E o \in Exchanges(Fresh, FALSE) :
                  LET r == Line(Fresh, 1, 2, 3, 4, o)
                  IN /\ Sets(r.c)
                     /\ EndsIn("line", IF r.raised # "none" THEN Raised(r.raised)
                                       ELSE Returned(<<r.val>>), FALSE)
                     /\ argv' = <<1, 2, 3, 4>>
                     /\ http' = DrawSingleLine(r)
    /\ UNCHANGED <<threads, net, rx, ipc>>

\* the largest count draw_random_lines accepts, line 133
MaxLines == 10000

\* sample requests: count and the coordinate range; a JSON body may spell
\* a number NaN, and float() accepts the string "nan"
Counts == {0, MaxLines + 1} \cup 1..MaxBurst
CoordRanges == {<<0, 1>>, <<1, 1>>, <<1, 0>>, <<NaN, 1>>}

\* what request.get_json() gives and how lines 119-123 end on it: a dict
\* whose values convert; a dict with a value int() or float() rejects with
\* ValueError or TypeError; a dict whose count is an infinite number, for
\* which int() raises OverflowError; a JSON value that is no dict, where
\* data.get raises AttributeError
Bodies == {"object", "badvalue", "infinite", "nonobject"}

\* a >= b on floats: false when either side is nan
FloatGe(a, b) == a # NaN /\ b # NaN /\ a >= b

\* lines 313-318: the answer to an exception that leaves a handler
InternalError(h) == Http(h, 500, "Internal server error", 0, 0)

\* POST /api/zcad/draw-random-lines, lines 109-166 up to the connect() of
\* random_lines, and lines 205-224 when connect() raises
ProxyDrawStart ==
    /\ Free
    /\ \E is_json \in BOOLEAN, body \in Bodies, n \in Counts, range \in CoordRanges,
          how \in ConnectHows, python \in Interpreters :
          LET h == "draw_random_lines"
              request == <<is_json, body, n, range[1], range[2]>>
          IN
          IF ~is_json
          THEN Answers(Http(h, 400, "Content-Type must be application/json", 0, 0),
                       request)
          ELSE IF body = "badvalue"
          THEN Answers(Http(h, 400, "Invalid parameters", 0, 0), request)
          ELSE IF body # "object" THEN Answers(InternalError(h), request)
          ELSE IF n < 1 \/ n > MaxLines
          THEN Answers(Http(h, 400, "Count must be between 1 and 10000", 0, 0), request)
          ELSE IF FloatGe(range[1], range[2])
          THEN Answers(Http(h, 400, "min_coord must be less than max_coord", 0, 0),
                       request)
          ELSE /\ CanCall(n + 2)
               /\ LET k == Connect(Fresh, how)
                  IN /\ Sets(k.c)
                     /\ pc' = IF k.exc # "none" THEN "idle" ELSE "begin"
                     /\ ret' = IF k.exc # "none" THEN Raised(k.exc) ELSE NoRet
                     /\ http' = IF k.exc # "none"
                                THEN DrawRandomLines(Raised(k.exc), n, python)
                                ELSE Http(h, 0, "", n, 0)
               /\ op' = "random_lines"
               /\ argv' = request
               /\ count' = n
               /\ lo' = range[1]
               /\ hi' = range[2]
               /\ i' = 0
               /\ results' = <<>>
               /\ pending' = NoRet
               /\ inWith' = FALSE
    /\ UNCHANGED <<threads, net, rx, ipc>>

\* the end of random_lines (its finally block) and lines 168-224
ProxyDrawEnds ==
    /\ pc = "finally"
    /\ \E o \in Exchanges(Self, TRUE), python \in Interpreters :
          LET f == Finally(Self, results, pending, o)
          IN /\ Sets(f.c)
             /\ results' = f.results
             /\ ret' = f.ret
             /\ http' = DrawRandomLines(f.ret, count, python)
    /\ pc' = "idle"
    /\ UNCHANGED <<op, argv, count, lo, hi, i, pending, inWith, threads, net, rx,
                   ipc>>

NextProxy ==
    \/ ProxyPing
    \/ ProxyLine
    \/ ProxyDrawStart
    \/ RandomLinesBegin
    \/ RandomLinesLine
    \/ ProxyDrawEnds

SpecProxy == Init /\ [][NextProxy]_vars

(***************************************************************************)
(* One exchange on the owned connection, read by read: the caller connects *)
(* and calls _send_command(cmd, use_persistent=True); the request is       *)
(* written, then each recv of the loop of lines 91-104 is a step that ends *)
(* with data, with the end of the stream, with a socket error or with the  *)
(* 5 s timeout.  The peer may send whatever it likes for as long as it     *)
(* likes.                                                                  *)
(***************************************************************************)
\* what a recv call can end with
RecvEvents == Events \cup {[type |-> "timeout", bytes |-> <<>>]}

\* ... on a connection in the state l
RecvEventsOn(l) == IF l = "up" THEN RecvEvents
                   ELSE {e \in RecvEvents : e.type \in {"eof", "reset"}}

\* the accumulated bytes as the model keeps them: bytes that are no JSON
\* value and no beginning of one stay so whatever follows them
Held(buf) ==
    IF Decode(buf).exc = "JSONDecodeError" /\ buf \notin {<<>>, <<"head">>}
    THEN <<"junk">>
    ELSE buf

\* a plausible slip: the loop returns the first JSON value of the buffer
\* and ignores what follows it
ReadOncePrefix(e, buf) ==
    CASE e.type = "timeout" ->
            [over |-> TRUE, out |-> Outcome(AfterLoop(buf), TRUE, FALSE), buf |-> buf]
      [] e.type = "eof" ->
            [over |-> TRUE, out |-> Outcome(AfterLoop(buf), TRUE, TRUE), buf |-> buf]
      [] e.type = "reset" ->
            [over |-> TRUE, out |-> Outcome(Exc("OSError"), TRUE, TRUE), buf |-> buf]
      [] OTHER ->
            LET b == buf \o e.bytes
                d == IF b[1] \in JsonValues THEN Val(b[1]) ELSE Decode(b)
            IN IF d.exc = "JSONDecodeError"
               THEN [over |-> FALSE, out |-> Outcome(d, TRUE, FALSE), buf |-> b]
               ELSE [over |-> TRUE, out |-> Outcome(d, TRUE, FALSE), buf |-> b]

\* one pass of the loop of lines 91-104 on the event e of recv, and lines
\* 106-107 when the loop is left by break: whether the try body is over,
\* its outcome, and the bytes accumulated
ReadOnce(e, buf) ==
    CASE e.type = "timeout" ->
            [over |-> TRUE, out |-> Outcome(AfterLoop(buf), TRUE, FALSE), buf |-> buf]
      [] e.type = "eof" ->
            [over |-> TRUE, out |-> Outcome(AfterLoop(buf), TRUE, TRUE), buf |-> buf]
      [] e.type = "reset" ->
            [over |-> TRUE, out |-> Outcome(Exc("OSError"), TRUE, TRUE), buf |-> buf]
      [] OTHER ->
            LET b == buf \o e.bytes
                d == Decode(b)
            IN IF d.exc = "JSONDecodeError"
               THEN [over |-> FALSE, out |-> Outcome(d, TRUE, FALSE), buf |-> b]
               ELSE [over |-> TRUE, out |-> Outcome(d, TRUE, FALSE), buf |-> b]

\* the commands the caller sends this way
PersistentVerbs == {"BEGIN_BATCH", "LINE"}

\* _send_command has returned: what it leaves in the instance
ReadsReturn(cmd, id, o) ==
    LET r == Exchanged(Self, id, cmd, <<>>, TRUE, o)
    IN /\ Sets(r.c)
       /\ EndsIn("_send_command", Returned(<<r.val>>), FALSE)
       /\ argv' = <<>>

ReadsConnect ==
    /\ rx.pc = "idle"
    /\ CallConnect

ReadsDisconnect ==
    /\ rx.pc = "idle"
    /\ CallDisconnect

\* lines 69-88: the request is built and sendall called; when sendall
\* fails the except clauses end the call
ReadsSend ==
    /\ rx.pc = "idle"
    /\ CanCall(1)
    /\ socket # None
    /\ \E cmd \in PersistentVerbs :
       \E w \in IF link = "up" THEN {"ok", "timeout", "oserror"} ELSE {"oserror"} :
          LET g == GenerateId(Fresh)
          IN IF w = "ok"
             THEN /\ Sets(g.c)
                  /\ rx' = [NoRx EXCEPT !.pc = "recv", !.id = g.id, !.cmd = cmd]
                  /\ op' = "_send_command"
                  /\ ret' = NoRet
                  /\ UNCHANGED <<argv, pc, count, lo, hi, i, results, pending, inWith>>
             ELSE /\ LET r == Exchanged(g.c, g.id, cmd, <<>>, TRUE,
                                        PersistentBody([send |-> w, reads |-> <<>>]))
                     IN /\ Sets(r.c)
                        /\ EndsIn("_send_command", Returned(<<r.val>>), FALSE)
                        /\ argv' = <<>>
                  /\ rx' = [NoRx EXCEPT !.id = g.id, !.cmd = cmd]
    /\ UNCHANGED <<threads, net, http, ipc>>

\* lines 91-107: one recv call and what follows it up to the next one, or to
\* the return of _send_command
ReadsRecv ==
    /\ rx.pc = "recv"
    /\ \E e \in RecvEventsOn(link) :
          LET t == ReadOnce(e, rx.buf)
              seen == [rx EXCEPT !.had = rx.buf, !.chunk = e.bytes, !.buf = Held(t.buf),
                                 !.first = IF @ = <<>> THEN e.bytes ELSE @,
                                 !.n = IF e.type = "data" THEN (@ + 1) % (MaxReads + 1)
                                       ELSE @]
          IN IF t.over
             THEN /\ ReadsReturn(rx.cmd, rx.id, t.out)
                  /\ rx' = [seen EXCEPT !.pc = "idle"]
             ELSE /\ rx' = seen
                  /\ UNCHANGED <<counter, socket, link, owed, nsock, open, ids, lastSend,
                                 wire, op, argv, pc, count, lo, hi, i, results, pending,
                                 ret, inWith>>
    /\ UNCHANGED <<threads, net, http, ipc>>

NextReads ==
    \/ ReadsConnect
    \/ ReadsDisconnect
    \/ ReadsSend
    \/ ReadsRecv

SpecReads == Init /\ [][NextReads]_vars

\* the interpreter goes on running the loop: a recv call that can end does
SpecReadsLive == SpecReads /\ WF_vars(ReadsRecv)

(***************************************************************************)
(* ZCADIPCClient (uzvipcclient.py), the client ZCADTCPClient was derived   *)
(* from.  connect, disconnect and _send_command have the statements of     *)
(* ZCADTCPClient's; random_lines differs.  The two clients are run side by *)
(* side, each against a peer of its own that behaves the same way: a       *)
(* command both clients send has the same outcome for both, and both runs  *)
(* are given the same random draws.                                        *)
(***************************************************************************)
\* uzvipcclient.py lines 51-56
IpcConnect(c, how) == Connect(c, how)

\* uzvipcclient.py lines 58-62
IpcDisconnect(c) == Disconnect(c)

\* uzvipcclient.py lines 64-129
IpcSendCommand(c, cmd, args, use_persistent, o) ==
    SendCommand(c, cmd, args, use_persistent, o)

\* uzvipcclient.py lines 176-179 and the loop's first test; after the loop
\* control goes to the END_BATCH of line 195 ("end")
IpcAfterBegin(r, res, n) ==
    IF r.raised # "none" THEN Stretch(res, Raised(r.raised), "finally")
    ELSE IF ~r.val.isdict THEN Stretch(res, Raised("AttributeError"), "finally")
    ELSE IF r.val.status # "ok"
    THEN Stretch(res,
                 Returned(<<Response(TRUE, "error", "Failed to start batch mode", NoId)>>),
                 "finally")
    ELSE Stretch(Append(res, r.val), NoRet, IF RangeDone(0, n) THEN "end" ELSE "loop")

\* uzvipcclient.py lines 187-188 and the loop's next test
IpcAfterLine(r, res, k, n) ==
    IF r.raised # "none" THEN Stretch(res, Raised(r.raised), "finally")
    ELSE Stretch(Append(res, r.val), NoRet, IF RangeDone(k + 1, n) THEN "end" ELSE "loop")

\* uzvipcclient.py lines 195-201: END_BATCH inside the try block, after the
\* loop; then the finally block and the return
IpcEnd(c, res, o) ==
    LET r == IpcSendCommand(c, "END_BATCH", <<>>, TRUE, o)
        all == Append(res, r.val)
    IN IF r.raised # "none"
       THEN [c |-> IpcDisconnect(r.c), results |-> res, ret |-> Raised(r.raised)]
       ELSE [c |-> IpcDisconnect(r.c), results |-> all, ret |-> Returned(all)]

\* uzvipcclient.py lines 197-199 when the try block was left by the return
\* of line 178 or by an exception: disconnect(), nothing is sent
IpcFinally(c, res, pend) == [c |-> IpcDisconnect(c), results |-> res, ret |-> pend]

\* both clients are idle and own no connection
TwinIdle == pc = "idle" /\ ipc.pc = "idle" /\ socket = None /\ ipc.c.socket = None

\* what a peer can do with a command both clients send
TwinExchanges == Exchanges(Self, TRUE) \cap Exchanges(ipc.c, TRUE)

\* random_lines(count = n) is called on both clients and both connect
TwinStart ==
    /\ TwinIdle
    /\ \E n \in 0..MaxCount :
          /\ CanCall(n + 2)
          /\ Sets(Connect(Fresh, "ok").c)
          /\ ipc' = [c |-> IpcConnect([ipc.c EXCEPT !.wire = <<>>, !.lastSend = NoSend],
                                      "ok").c,
                     pc |-> "begin", results |-> <<>>, pending |-> NoRet, ret |-> NoRet]
          /\ count' = n
    /\ pc' = "begin"
    /\ ret' = NoRet
    /\ op' = "random_lines"
    /\ argv' = <<>>
    /\ lo' = 0
    /\ hi' = 1
    /\ i' = 0
    /\ results' = <<>>
    /\ pending' = NoRet
    /\ inWith' = FALSE
    /\ UNCHANGED <<threads, net, http, rx>>

\* a client's run after a stretch
IpcAfter(c, t) == [ipc EXCEPT !.c = c, !.pc = t.next, !.results = t.results,
                              !.pending = t.pending]

\* both send BEGIN_BATCH
TwinBegin ==
    /\ pc = "begin"
    /\ ipc.pc = "begin"
    /\ \E o \in TwinExchanges :
          LET r == SendCommand(Self, "BEGIN_BATCH", <<>>, TRUE, o)
              t == AfterBegin(r, results, count)
              q == IpcSendCommand(ipc.c, "BEGIN_BATCH", <<>>, TRUE, o)
          IN /\ Sets(r.c)
             /\ results' = t.results
             /\ pending' = t.pending
             /\ pc' = t.next
             /\ ipc' = IpcAfter(q.c, IpcAfterBegin(q, ipc.results, count))
    /\ UNCHANGED <<op, argv, count, lo, hi, i, ret, inWith, threads, net, http, rx>>

\* both send a LINE
TwinLine ==
    /\ pc = "loop"
    /\ ipc.pc = "loop"
    /\ \E d \in Draws(lo, hi) :
          \E o \in TwinExchanges :
             LET r == SendCommand(Self, "LINE", d, TRUE, o)
                 t == AfterLine(r, results, i, count)
                 q == IpcSendCommand(ipc.c, "LINE", d, TRUE, o)
             IN /\ Sets(r.c)
                /\ results' = t.results
                /\ pending' = t.pending
                /\ pc' = t.next
                /\ ipc' = IpcAfter(q.c, IpcAfterLine(q, ipc.results, i, count))
    /\ i' = i + 1
    /\ UNCHANGED <<op, argv, count, lo, hi, ret, inWith, threads, net, http, rx>>

\* ZCADTCPClient runs its finally block; ZCADIPCClient sends END_BATCH when
\* its loop has ended, and runs its finally block
TwinEnd ==
    /\ pc = "finally"
    /\ ipc.pc \in {"end", "finally"}
    /\ \E o \in Exchanges(Self, TRUE) :
          /\ ipc.pc = "end" => o \in Exchanges(ipc.c, TRUE)
          /\ LET f == Finally(Self, results, pending, o)
                 g == IF ipc.pc = "end" THEN IpcEnd(ipc.c, ipc.results, o)
                      ELSE IpcFinally(ipc.c, ipc.results, ipc.pending)
             IN /\ Sets(f.c)
                /\ results' = f.results
                /\ ret' = f.ret
                /\ ipc' = [ipc EXCEPT !.c = g.c, !.pc = "idle", !.results = g.results,
                                      !.ret = g.ret]
    /\ pc' = "idle"
    /\ UNCHANGED <<op, argv, count, lo, hi, i, pending, inWith, threads, net, http, rx>>

NextTwin ==
    \/ TwinStart
    \/ TwinBegin
    \/ TwinLine
    \/ TwinEnd

SpecTwin == Init /\ [][NextTwin]_vars

(***************************************************************************)
(* What the claims read off a state.                                       *)
(***************************************************************************)
IsSend(e) == e.ev = "send"

\* the _send_command calls of the current (or latest) operation, in order
Sends == SelectSeq(wire, IsSend)

IsLineSend(e) == e.ev = "send" /\ e.cmd = "LINE"

LineSends == SelectSeq(wire, IsLineSend)

Last(q) == q[Len(q)]

\* random_lines has ended, by return or by exception
RandomLinesDone == op = "random_lines" /\ pc = "idle"

\* ... and its connect() did not raise
RandomLinesRan == RandomLinesDone /\ Sends # <<>>

\* the operation's connect() made an attempt that failed
ConnectFailed == wire # <<>> /\ wire[1].ev = "connect" /\ ~wire[1].sent

\* the result _send_command gave for BEGIN_BATCH has status 'ok'
BeginOk == Sends[1].res.raised = "none" /\ Sends[1].res.val.isdict
              /\ Sends[1].res.val.status = "ok"

\* the result _send_command gave for BEGIN_BATCH has another status
BeginNotOk == Sends[1].res.raised = "none" /\ Sends[1].res.val.isdict
                 /\ Sends[1].res.val.status # "ok"

\* the last two things the operation did: END_BATCH handed to _send_command
\* on the owned socket, then that socket closed
EndThenClose ==
    /\ Len(wire) >= 2
    /\ LET e == wire[Len(wire) - 1]
           z == wire[Len(wire)]
       IN /\ e.ev = "send" /\ e.cmd = "END_BATCH" /\ e.persistent
          /\ z.ev = "close" /\ z.sock = e.sock

DigitValue(ch) == CHOOSE d \in 0..9 : Digit(d) = ch

RECURSIVE Number(_)
\* the number a sequence of digit characters spells
Number(q) == IF q = <<>> THEN 0
             ELSE 10 * Number(SubSeq(q, 1, Len(q) - 1)) + DigitValue(Last(q))

\* the sequence number inside a command ID
SeqNo(id) == Number(SubSeq(id, 5, Len(id)))

DigitChars == {Digit(d) : d \in 0..9}

(***************************************************************************)
(* The claims.                                                             *)
(***************************************************************************)

\* C1: whenever the try body of _send_command met a failure (refused
\* connection, connect or read timeout, socket error, peer closing before a
\* decodable reply, undecodable bytes), on the owned or on an ephemeral
\* connection, the call raised nothing and returned a record with status
\* 'error', an error message, and the request's id.
C1_SendFailureIsReturned ==
    (lastSend.cmd # "" /\ lastSend.out.exc # "none") =>
        /\ lastSend.raised = "none"
        /\ lastSend.val.isdict
        /\ lastSend.val.status = "error"
        /\ lastSend.val.error \notin {"absent", ""}
        /\ lastSend.val.id = lastSend.id

\* C1 witness: on the owned connection the peer closed before a decodable
\* reply arrived, and the command returned an error record.
C1_Witness ==
    /\ lastSend.owned
    /\ lastSend.out.exc = "JSONDecodeError"
    /\ lastSend.out.closed
    /\ lastSend.val.status = "error"

\* C2: when random_lines(count = N >= 1) has ended and every command it issued
\* got a result with status 'ok', it returned exactly N + 2 results, those of
\* BEGIN_BATCH, of N LINE commands and of END_BATCH in that order, the first
\* and the last with status 'ok'.
C2_AlwaysOkBurst ==
    (/\ RandomLinesRan
     /\ count >= 1
     /\ \A k \in 1..Len(Sends) :
           /\ Sends[k].res.raised = "none"
           /\ Sends[k].res.val.isdict
           /\ Sends[k].res.val.status = "ok") =>
        /\ ret.kind = "returned"
        /\ Len(ret.val) = count + 2
        /\ Len(Sends) = count + 2
        /\ Sends[1].cmd = "BEGIN_BATCH"
        /\ \A k \in 2..(count + 1) : Sends[k].cmd = "LINE"
        /\ Sends[count + 2].cmd = "END_BATCH"
        /\ \A k \in 1..(count + 2) : ret.val[k] = Sends[k].res.val
        /\ ret.val[1].status = "ok"
        /\ ret.val[count + 2].status = "ok"

\* C2 witness: a burst of two lines, every command answered 'ok', four results.
C2_Witness ==
    /\ RandomLinesRan
    /\ count = 2
    /\ \A k \in 1..Len(Sends) : Sends[k].res.val.status = "ok"
    /\ ret.kind = "returned"
    /\ Len(ret.val) = 4

\* C3: when the result of BEGIN_BATCH in random_lines has a status other than
\* 'ok' (error reply, timeout, undecodable reply), random_lines returns a
\* sequence of exactly one element, whose status is 'error'; no LINE command
\* was issued; and the client owns no socket afterwards.
C3_BatchStartFailure ==
    (RandomLinesRan /\ BeginNotOk) =>
        /\ ret.kind = "returned"
        /\ Len(ret.val) = 1
        /\ ret.val[1].status = "error"
        /\ LineSends = <<>>
        /\ socket = None
        /\ open = {}

\* C3 witness: BEGIN_BATCH timed out on the owned connection and random_lines
\* has returned.
C3_Witness ==
    /\ RandomLinesRan
    /\ BeginNotOk
    /\ Sends[1].res.val.error = "Connection timeout"
    /\ ret.kind = "returned"
    /\ count >= 1

C5_LineErrorsDoNotAbort ==
    (RandomLinesRan /\ BeginOk) =>
        /\ Len(LineSends) = count
        /\ ret.kind = "returned"
        /\ Len(ret.val) = count + 2
        /\ \A k \in 1..count : ret.val[k + 1] = LineSends[k].res.val
        /\ EndThenClose
        /\ Last(ret.val) = wire[Len(wire) - 1].res.val

\* C5 witness: the first of two LINE commands failed because the connection
\* died; the second was still issued, and four results were returned.
C5_Witness ==
    /\ RandomLinesRan
    /\ BeginOk
    /\ count = 2
    /\ Len(LineSends) = 2
    /\ LineSends[1].res.val.status = "error"
    /\ LineSends[2].res.val.status = "error"
    /\ ~LineSends[2].sent
    /\ Len(ret.val) = 4

\* C6: whenever random_lines has ended, by return or by exception, connect()
\* failing included, the client owns no socket: _socket is None and no socket
\* is left open.
C6_NoSocketAfterBurst ==
    RandomLinesDone => (socket = None /\ open = {})

\* C7 as stated: when the peer refuses the connection or the attempt times
\* out, random_lines and begin_batch return a result with status 'error'.
C7_ConnectFailureReturned ==
    (pc = "idle" /\ op \in {"random_lines", "begin_batch"} /\ ConnectFailed) =>
        /\ ret.kind = "returned"
        /\ ret.val # <<>>
        /\ ret.val[1].status = "error"

\* C7 amended: ping, save, export, line, circle, text and end_batch return a
\* value on every path, and so does begin_batch when connect() does not fail;
\* when the peer refuses the connection or the attempt times out, begin_batch
\* and random_lines raise that exception of connect() to their caller
\* (ConnectionRefusedError, socket.timeout, or the socket error) and issue no
\* command.
C7_ConnectFailureRaised ==
    /\ (pc = "idle" /\ op \in {"ping", "save", "export", "line", "circle", "text",
                               "end_batch"}) =>
          (ret.kind = "returned" /\ Len(ret.val) = 1)
    /\ (pc = "idle" /\ op = "begin_batch" /\ ~ConnectFailed) =>
          (ret.kind = "returned" /\ Len(ret.val) = 1)
    /\ (pc = "idle" /\ op \in {"random_lines", "begin_batch"} /\ ConnectFailed) =>
          /\ ret.kind = "raised"
          /\ ret.exc \in {"ConnectionRefusedError", "socket.timeout", "OSError"}
          /\ Sends = <<>>
          /\ lastSend = NoSend

\* C7 witness: random_lines ended by the ConnectionRefusedError of connect().
C7_Witness ==
    /\ RandomLinesDone
    /\ ConnectFailed
    /\ ret.kind = "raised"
    /\ ret.exc = "ConnectionRefusedError"

\* C8: the IDs generated so far are pairwise distinct, one per counter value,
\* and a later ID carries a larger sequence number than every earlier one.
C8_IdsDistinctIncreasing ==
    /\ Len(ids) = counter
    /\ \A j \in 1..Len(ids) : \A k \in 1..Len(ids) :
          j < k => (ids[j] # ids[k] /\ SeqNo(ids[j]) < SeqNo(ids[k]))

\* C8 witness: four IDs were generated, the last by a command that failed
\* after an earlier operation had ended.
C8_Witness ==
    /\ Len(ids) = 4
    /\ op = "ping"
    /\ ret.val[1].status = "error"
    /\ SeqNo(ids[4]) = 4

\* C9: every ID generated so far has exactly 8 characters: 'cmd-' and four
\* decimal digits.
C9_IdsHaveEightChars ==
    \A k \in 1..Len(ids) :
        /\ Len(ids[k]) = 8
        /\ SubSeq(ids[k], 1, 4) = <<"c", "m", "d", "-">>
        /\ \A j \in 5..8 : ids[k][j] \in DigitChars

\* C10: in every reachable state disconnect() leaves the client with no
\* socket, owned or open; it changes nothing when no socket is owned; a
\* second disconnect() changes nothing more; and a disconnect() call returns.
C10_DisconnectIdempotent ==
    LET d == Disconnect(Self)
    IN /\ d.socket = None
       /\ d.open = {}
       /\ d.link = "none"
       /\ Disconnect(d) = d
       /\ socket = None => d = Self
       /\ (op = "disconnect" /\ pc = "idle") =>
             (socket = None /\ open = {} /\ ret = Returned(<<>>))

\* C10 witness: disconnect() was called on a client that owned nothing, after
\* a socket had been created and released; it changed nothing.
C10_Witness ==
    /\ op = "disconnect"
    /\ pc = "idle"
    /\ wire = <<>>
    /\ nsock >= 1
    /\ socket = None
    /\ ret = Returned(<<>>)

\* C11: connect() is idempotent.  When no socket is owned it creates exactly
\* one socket object, stores it and connects it to host:port (one new TCP
\* stream when the peer accepts); when a socket is owned it creates nothing,
\* changes nothing and returns; and a connect() after a connect() changes
\* nothing more.
C11_ConnectIdempotent ==
    /\ \A how \in ConnectHows :
          LET k == Connect(Self, how)
          IN /\ socket = None =>
                   /\ k.c.socket = nsock + 1
                   /\ k.c.socket \notin open
                   /\ k.c.nsock = nsock + 1
                   /\ k.c.open = open \cup {k.c.socket}
                   /\ Len(k.c.wire) = Len(wire) + 1
                   /\ how = "ok" => (k.exc = "none" /\ k.c.link = "up")
             /\ socket # None => (k.c = Self /\ k.exc = "none")
             /\ \A again \in ConnectHows :
                   Connect(k.c, again) = [c |-> k.c, exc |-> "none"]
    /\ (op = "connect" /\ pc = "idle" /\ ret.kind = "returned") =>
          (socket # None /\ socket \in open /\ Len(wire) <= 1)

\* C11 witness: connect() was called on a client that owned a connection; it
\* returned without touching a socket.
C11_Witness ==
    /\ op = "connect"
    /\ pc = "idle"
    /\ ret.kind = "returned"
    /\ wire = <<>>
    /\ socket # None
    /\ link = "up"
    /\ open = {socket}

\* C12: in every reachable state the instance has at most one socket open,
\* and while a command is exchanged at most one connection is established,
\* the owned one and the ephemeral one of the command counted together.
C12_AtMostOneConnection ==
    /\ Cardinality(open) <= 1
    /\ Cardinality(lastSend.conns) <= 1

\* C13: on the owned connection, the reply a command returns answers that
\* command: when _send_command decoded a reply, it is the peer's reply to the
\* request just sent, never the reply to an earlier request.
C13_ReplyAnswersItsCommand ==
    (lastSend.cmd # "" /\ lastSend.owned /\ lastSend.out.exc = "none") =>
        lastSend.about = lastSend.id

\* the handler threads whose request is written and not yet resolved
InFlight == {t \in Threads : threads[t].pc = "recv"}

\* C14: at any time at most one command of the instance is in flight, for
\* every interleaving of the proxy's handler threads on the shared client.
C14_OneCommandInFlight == Cardinality(InFlight) <= 1

\* C15: for every interleaving of the handlers' random_lines calls, every
\* LINE of a call is written to the owned connection on which the call's
\* BEGIN_BATCH was written, and that connection is closed by nothing but the
\* call's own teardown.
C15_BatchOnOneConnection ==
    /\ \A j \in 1..Len(net.log) :
          net.log[j].cmd = "LINE" =>
             \E b \in 1..(j - 1) :
                /\ net.log[b].cmd = "BEGIN_BATCH"
                /\ net.log[b].thread = net.log[j].thread
                /\ net.log[b].persistent
                /\ net.log[j].persistent
                /\ net.log[j].sock = net.log[b].sock
    /\ \A c \in 1..Len(net.closes) : \A b \in 1..Len(net.log) :
          (net.log[b].cmd = "BEGIN_BATCH" /\ net.log[b].sock = net.closes[c].sock) =>
             net.log[b].thread = net.closes[c].thread

\* the _send_command calls the current (or latest) operation has made
Calls ==
    CASE op \in {"ping", "save", "export", "line", "circle", "text", "end_batch"} -> 1
      [] op = "begin_batch" -> IF ConnectFailed THEN 0 ELSE 1
      [] op = "random_lines" ->
            CASE pc = "begin" -> 0
              [] pc \in {"loop", "finally"} -> 1 + i
              [] OTHER -> IF ConnectFailed THEN 0 ELSE 2 + i
      [] OTHER -> 0

\* C16: no command is retried.  Every _send_command call of an operation
\* left exactly one exchange, under an ID of its own, the newest IDs of the
\* instance in order, so no request is written twice and the requests that
\* went out are no more than the calls made; an ephemeral exchange used one
\* new socket, and an operation made at most one attempt to connect the
\* owned socket.
C16_NoRetry ==
    /\ Len(Sends) = Calls
    /\ Len(Sends) <= Len(ids)
    /\ \A k \in 1..Len(Sends) : Sends[k].id = ids[Len(ids) - Len(Sends) + k]
    /\ \A j \in 1..Len(Sends) : \A k \in 1..Len(Sends) :
          j # k => /\ Sends[j].id # Sends[k].id
                   /\ (~Sends[j].persistent => Sends[j].sock # Sends[k].sock)
    /\ Len(SelectSeq(Sends, LAMBDA e : e.sent)) <= Calls
    /\ Len(SelectSeq(wire, LAMBDA e : e.ev = "connect")) <= 1

\* C16 witness: in a burst of one line the LINE request went out and got no
\* reply in time; the burst went on to END_BATCH and the three exchanges
\* carry three IDs.
C16_Witness ==
    /\ RandomLinesRan
    /\ count = 1
    /\ Len(Sends) = 3
    /\ Sends[2].cmd = "LINE"
    /\ Sends[2].sent
    /\ Sends[2].res.val.status = "error"
    /\ Sends[3].cmd = "END_BATCH"
    /\ Sends[3].id # Sends[2].id

\* the latest command met no listener: its ephemeral connection attempt was
\* refused or timed out, or it was written to an owned socket that connect()
\* had failed to connect
NoListener ==
    /\ lastSend.cmd # ""
    /\ IF lastSend.owned THEN link = "unconnected"
       ELSE lastSend.out.exc \in {"ConnectionRefusedError", "socket.timeout"}
               /\ ~lastSend.out.sent

RefusedOrTimeout == {"Connection refused - is ZCAD running?", "Connection timeout"}

C18_OwnedThroughoutWith ==
    /\ inWith => socket # None
    /\ op = "__exit__" => (socket = None /\ open = {})

\* C18 amended: when __enter__ returns, the block is entered with a socket
\* owned; inside the block ping, save, export, line, circle, text and
\* begin_batch leave the owned socket in place, whereas disconnect,
\* end_batch and a random_lines whose connect() did not raise release it, so
\* that the rest of the block runs with no connection owned; and when the
\* block is left, after its last
\* statement or because an operation raised, nothing is owned or open.
\* When connect() raises in __enter__ the block is not entered.
C18_WithBlock ==
    /\ (op = "__enter__" /\ ret.kind = "returned") =>
          (inWith /\ socket # None /\ socket \in open)
    /\ (op = "__enter__" /\ ret.kind = "raised") => ~inWith
    /\ (inWith /\ pc = "idle" /\ socket # None) =>
          /\ \A o \in EphemeralOutcomes :
                /\ Ping(Self, o).c.socket = socket
                /\ Save(Self, "a.dxf", o).c.socket = socket
                /\ Export(Self, "a.dxf", o).c.socket = socket
                /\ Line(Self, 1, 2, 3, 4, o).c.socket = socket
                /\ Circle(Self, 1, 2, 3, o).c.socket = socket
                /\ Text(Self, 1, 2, "Test", "2.5", o).c.socket = socket
          /\ \A how \in ConnectHows : \A o \in Exchanges(Self, TRUE) :
                BeginBatch(Self, how, o).c.socket = socket
    /\ (inWith /\ pc = "idle" /\ op \in {"disconnect", "end_batch"}) => socket = None
    /\ (inWith /\ RandomLinesRan) => socket = None
    /\ op = "__exit__" => (~inWith /\ socket = None /\ open = {})

\* C18 witness: inside the block a ping was issued, then a statement of the
\* body raised; __exit__ closed the owned socket and the exception went on.
C18_Witness ==
    /\ op = "__exit__"
    /\ ret = Raised("AssertionError")
    /\ counter >= 1
    /\ wire # <<>>
    /\ wire[1].ev = "close"
    /\ ~inWith
    /\ socket = None
    /\ open = {}

\* C19: ping, save, export, line, circle and text each issue exactly one
\* command, with the verb and the positional arguments of the command table
\* (SAVE without arguments when no filename is given, TEXT with height 2.5
\* when none is given), on an ephemeral connection of its own, whether or
\* not the client owns a socket.
C19_SingleCommands ==
    (pc = "idle" /\ op \in {"ping", "save", "export", "line", "circle", "text"}) =>
        /\ Len(wire) = 1
        /\ Len(Sends) = 1
        /\ ~Sends[1].persistent
        /\ ~lastSend.owned
        /\ Sends[1].sock # socket
        /\ Sends[1].sock \notin open
        /\ Sends[1].cmd = lastSend.cmd
        /\ CASE op = "ping" -> lastSend.cmd = "PING" /\ lastSend.args = <<>>
             [] op = "save" ->
                   /\ lastSend.cmd = "SAVE"
                   /\ lastSend.args = IF argv = <<>> \/ argv = <<"">> THEN <<>> ELSE argv
             [] op = "export" -> lastSend.cmd = "EXPORT" /\ lastSend.args = argv
             [] op = "line" ->
                   lastSend.cmd = "LINE" /\ Len(argv) = 4 /\ lastSend.args = argv
             [] op = "circle" ->
                   lastSend.cmd = "CIRCLE" /\ Len(argv) = 3 /\ lastSend.args = argv
             [] OTHER ->
                   /\ lastSend.cmd = "TEXT"
                   /\ Len(lastSend.args) = 4
                   /\ \A k \in 1..Len(argv) : lastSend.args[k] = argv[k]
                   /\ Len(argv) = 3 => lastSend.args[4] = "2.5"

\* C19 witness: text(1, 2, "Test") was called while the client owned a
\* connected socket; TEXT went out with height 2.5 on another socket.
C19_Witness ==
    /\ pc = "idle"
    /\ op = "text"
    /\ argv = <<1, 2, "Test">>
    /\ socket # None
    /\ link = "up"
    /\ lastSend.args = <<1, 2, "Test", "2.5">>
    /\ lastSend.out.sent
    /\ Sends[1].sock # socket

\* v is a number of the closed interval [a, b]
InRange(v, a, b) == v # NaN /\ a <= v /\ v <= b

\* C20: for min_coord <= max_coord, every coordinate of every LINE command
\* that random_lines sends lies in the closed interval [min_coord, max_coord].
C20_CoordinatesInRange ==
    (op = "random_lines" /\ lastSend.cmd = "LINE" /\ lo <= hi) =>
        /\ Len(lastSend.args) = 4
        /\ \A k \in 1..4 : InRange(lastSend.args[k], lo, hi)

\* the exceptions of a refused connection and of a timeout
Unavailable == {"ConnectionRefusedError", "socket.timeout"}

\* the client failure behind the proxy's latest response was a refused
\* connection or a timeout: of the one command of ping or line, of the
\* connect() of random_lines, or of the batch command whose result the
\* handler looked at
FailedUnavailable ==
    IF http.handler \in {"ping_zcad", "draw_single_line"}
    THEN lastSend.out.exc \in Unavailable
    ELSE IF ret.kind = "raised" THEN ret.exc \in Unavailable
    ELSE (IF BeginNotOk THEN Sends[1] ELSE Last(Sends)).res.val.error \in RefusedOrTimeout

\* C21: whenever a handler of the proxy (ping, draw-random-lines, line)
\* answers a failure of its call on the client, the status is 503 when the
\* failure was a refused connection or a timeout and 500 for every other
\* failure.
C21_StatusByFailureKind ==
    (pc = "idle" /\ http.code \in {500, 503}) =>
        (IF FailedUnavailable THEN http.code = 503 ELSE http.code = 500)

\* C22: a send that is not on the owned connection (use_persistent false, or
\* no socket owned) creates exactly one new socket object and leaves it
\* closed on every path, whatever the peer and the network do (success,
\* refusal, timeout, undecodable reply, other error); _socket, what it is
\* connected to and the other open sockets are as before the call; and a
\* value is decoded only when the connect and the write succeeded and the
\* peer closed its side, from all the bytes read until then.
C22_EphemeralSend ==
    /\ \A p \in BOOLEAN : \A o \in EphemeralOutcomes :
          ~UsesOwned(Self, p) =>
             LET r == SendCommand(Self, "PING", <<>>, p, o)
             IN /\ r.c.nsock = nsock + 1
                /\ r.c.open = open
                /\ r.c.socket = socket
                /\ r.c.link = link
                /\ r.c.owed = owed
                /\ Len(r.c.wire) = Len(wire) + 1
                /\ Last(r.c.wire).sock = nsock + 1
                /\ ~Last(r.c.wire).persistent
    /\ \A k \in 1..Len(Sends) :
          ~Sends[k].persistent =>
             /\ Sends[k].sock \notin open
             /\ Sends[k].sock # socket
             /\ \A j \in 1..Len(wire) :
                   (wire[j].sock = Sends[k].sock) => wire[j] = Sends[k]
    /\ \A s \in EphemeralScripts :
          EphemeralBody(s).exc = "none" =>
             /\ s.connect = "ok" /\ s.send = "ok" /\ s.end = "eof"
             /\ Decode(Concat(s.reads)).exc = "none"

\* C22 witness: end_batch was called with no socket owned while an earlier
\* socket object had been closed; END_BATCH went out on a new socket, the
\* read timed out, and no socket is owned or open afterwards.
C22_Witness ==
    /\ pc = "idle"
    /\ op = "end_batch"
    /\ Len(Sends) = 1
    /\ ~Sends[1].persistent
    /\ Sends[1].sent
    /\ Sends[1].sock = 2
    /\ lastSend.out.exc = "socket.timeout"
    /\ socket = None
    /\ open = {}

\* the operations that call connect()
Connecting == {"connect", "begin_batch", "random_lines", "__enter__"}

\* C23: a send asked to use the persistent connection goes out on the owned
\* socket exactly when self._socket holds one at that moment; when it holds
\* none the send is an ephemeral one, on a new socket that is closed and not
\* kept (end_batch on a client that is not connected sends END_BATCH that
\* way); a send asked not to use it is always ephemeral; and no send creates
\* or adopts an owned socket: only the operations that call connect() do.
C23_PersistentOnlyWhenOwned ==
    /\ \A p \in BOOLEAN : \A o \in Exchanges(Self, p) :
          LET r == SendCommand(Self, "END_BATCH", <<>>, p, o)
              e == Last(r.c.wire)
          IN /\ e.persistent <=> (p /\ socket # None)
             /\ e.persistent => (e.sock = socket /\ r.c.nsock = nsock)
             /\ ~e.persistent => (e.sock = nsock + 1 /\ e.sock \notin r.c.open)
             /\ r.c.socket = socket
             /\ r.c.open = open
             /\ r.raised = "none"
    /\ (pc = "idle" /\ op = "end_batch") =>
          /\ Len(Sends) = 1
          /\ Sends[1].cmd = "END_BATCH"
          /\ socket = None
          /\ IF Sends[1].persistent
             THEN Len(wire) = 2 /\ wire[2].ev = "close" /\ wire[2].sock = Sends[1].sock
             ELSE Len(wire) = 1 /\ Sends[1].sock = nsock
    /\ \A k \in 1..Len(wire) : wire[k].ev = "connect" => op \in Connecting

\* C23 witness: end_batch on a client that owns nothing and never connected;
\* END_BATCH went out on a socket of its own and was answered 'ok'.
C23_Witness ==
    /\ pc = "idle"
    /\ op = "end_batch"
    /\ nsock = 1
    /\ ~Sends[1].persistent
    /\ Sends[1].sent
    /\ Sends[1].sock = 1
    /\ ret.val[1].status = "ok"
    /\ socket = None
    /\ open = {}

\* the latest recv of the exchange found nothing accumulated and delivered
\* a complete JSON value followed by further bytes
ResponseThenMore == rx.cmd # "" /\ rx.had = <<>> /\ Len(rx.chunk) = 2
                       /\ rx.chunk[1] \in JsonValues

\* C24 as stated: in persistent mode, when one read delivers a complete
\* response followed by further bytes, the send returns at that read, and
\* what it returns is that first response.
C24_FirstResponseReturned ==
    ResponseThenMore =>
        /\ rx.pc = "idle"
        /\ lastSend.id = rx.id
        /\ lastSend.out.exc = "none"
        /\ lastSend.out.val = rx.chunk[1]

\* C24 amended: in persistent mode the read loop returns as soon as the
\* whole accumulated buffer parses as one JSON value, and goes on reading
\* while it does not.  When the first read of an exchange delivers a
\* complete response followed by further bytes, the buffer does not parse
\* and never will: the loop goes on, no later read makes the send return a
\* response, and when the send returns it returns an error record with the
\* request's id.  The accumulated bytes are not kept: the next exchange
\* starts with an empty buffer.
C24_WholeBufferDecoded ==
    /\ rx.pc = "recv" => Decode(rx.buf).exc = "JSONDecodeError"
    /\ (rx.pc = "idle" /\ op = "_send_command" /\ lastSend.out.exc = "none") =>
          (rx.chunk # <<>> /\ Decode(rx.had \o rx.chunk) = Val(lastSend.out.val))
    /\ (op = "_send_command" /\ Len(rx.first) = 2 /\ rx.first[1] \in JsonValues) =>
          IF rx.pc = "recv"
          THEN /\ rx.buf = <<"junk">>
               /\ \A e \in RecvEvents :
                     LET t == ReadOnce(e, rx.buf)
                     IN t.over => t.out.exc # "none"
          ELSE /\ lastSend.id = rx.id
               /\ lastSend.out.exc # "none"
               /\ lastSend.raised = "none"
               /\ lastSend.val.status = "error"
               /\ lastSend.val.id = rx.id
    /\ (rx.pc = "recv" /\ rx.first = <<>>) => rx.buf = <<>>

\* C24 witness: the first read delivered an 'ok' response followed by more
\* bytes, the next recv timed out, and BEGIN_BATCH returned an error record.
C24_Witness ==
    /\ rx.pc = "idle"
    /\ op = "_send_command"
    /\ rx.cmd = "BEGIN_BATCH"
    /\ rx.first = <<"ok", "junk">>
    /\ rx.chunk = <<>>
    /\ rx.had = <<"junk">>
    /\ lastSend.out.exc = "JSONDecodeError"
    /\ ~lastSend.out.closed
    /\ lastSend.val.status = "error"

\* C25: every send on the owned connection eventually returns, whatever the
\* peer does (stays silent, closes, or keeps delivering bytes that never
\* make a complete JSON value), given that every recv call ends, with data,
\* with the end of the stream or with its timeout.
C25_SendReturns == (rx.pc = "recv") ~> (rx.pc = "idle")

\* the latest send was on the owned connection and its read loop ended
\* because a recv timed out: the request went out, the connection is still
\* there, and what was accumulated did not decode
PersistentReadTimedOut ==
    /\ lastSend.cmd # ""
    /\ lastSend.owned
    /\ lastSend.out.sent
    /\ ~lastSend.out.closed
    /\ lastSend.out.exc = "JSONDecodeError"

\* C26 as stated: whenever a send failed because a connect or a read
\* exceeded its timeout, on an ephemeral or on the owned connection, the
\* result has status 'error' and error 'Connection timeout'.
C26_TimeoutMessage ==
    (lastSend.cmd # "" /\ (lastSend.out.exc = "socket.timeout" \/ PersistentReadTimedOut)) =>
        /\ lastSend.val.status = "error"
        /\ lastSend.val.error = "Connection timeout"

\* C26 amended: a send whose try body was left by socket.timeout (the
\* connect, the write or a read of an ephemeral exchange, or the write on
\* the owned connection) returns status 'error' with 'Connection timeout'
\* and the request's id, and an ephemeral send returns that message in no
\* other case.  On the owned connection a read that times out only ends the
\* loop: the send returns status 'error' with the message of the decode
\* error of what was accumulated, never 'Connection timeout'.
C26_TimeoutMessageByMode ==
    /\ (lastSend.cmd # "" /\ lastSend.out.exc = "socket.timeout") =>
          /\ lastSend.raised = "none"
          /\ lastSend.val = Response(TRUE, "error", "Connection timeout", lastSend.id)
    /\ (lastSend.cmd # "" /\ ~lastSend.owned /\ lastSend.out.exc # "none") =>
          (lastSend.val.error = "Connection timeout"
              <=> lastSend.out.exc = "socket.timeout")
    /\ PersistentReadTimedOut =>
          /\ lastSend.raised = "none"
          /\ lastSend.val = Response(TRUE, "error", StrOf("JSONDecodeError"), lastSend.id)
    /\ (lastSend.cmd # "" /\ lastSend.owned /\ lastSend.out.exc # "none"
           /\ lastSend.val.error = "Connection timeout") => ~lastSend.out.sent

\* C26 witness: in random_lines a LINE went out on the owned connection and
\* no reply came within the read timeout; the result carries the decode
\* error.
C26_Witness ==
    /\ op = "random_lines"
    /\ lastSend.cmd = "LINE"
    /\ PersistentReadTimedOut
    /\ lastSend.val.status = "error"
    /\ lastSend.val.error = StrOf("JSONDecodeError")

\* C27: every value _send_command returned is a record (a dict) whose
\* status is 'ok' or 'error', whatever well-formed JSON the peer replied
\* with; and a random_lines whose connect() returned never raises.
C27_ResultIsResponse ==
    /\ lastSend.cmd # "" =>
          /\ lastSend.raised = "none"
          /\ lastSend.val.isdict
          /\ lastSend.val.status \in {"ok", "error"}
    /\ RandomLinesRan => ret.kind = "returned"

\* every ID the instance has consumed was consumed by the current
\* operation: the client was fresh when the operation began
FreshBurst == RandomLinesRan /\ counter = Len(Sends)

\* C28 as stated: in a random_lines burst on a fresh client BEGIN_BATCH is
\* cmd-0001, the i-th LINE carries sequence number i + 1 and END_BATCH
\* carries sequence number count + 2.
C28_BurstNumbering ==
    FreshBurst =>
        /\ Sends[1].cmd = "BEGIN_BATCH"
        /\ Sends[1].id = <<"c", "m", "d", "-", "0", "0", "0", "1">>
        /\ \A k \in 1..Len(LineSends) : SeqNo(LineSends[k].id) = k + 1
        /\ Last(Sends).cmd = "END_BATCH"
        /\ SeqNo(Last(Sends).id) = count + 2

\* C28 amended: each _send_command call consumes exactly one ID whether it
\* succeeds or fails, so the commands of an operation carry consecutive
\* sequence numbers that end at the counter, and the n-th send of an
\* instance whose IDs are consumed by sends only carries number n.  In a
\* burst on a fresh client BEGIN_BATCH is cmd-0001 and the i-th LINE carries
\* i + 1; END_BATCH carries count + 2 (cmd-1002 for 1000 lines) when
\* BEGIN_BATCH returned 'ok', and 2 (cmd-0002) when it did not, no LINE
\* having been sent.
C28_OneIdPerSend ==
    /\ \A p \in BOOLEAN : \A o \in Exchanges(Self, p) :
          LET r == SendCommand(Self, "LINE", <<>>, p, o)
          IN /\ r.c.counter = counter + 1
             /\ r.c.lastSend.id = FormatId(counter + 1)
             /\ r.c.ids = Append(ids, FormatId(counter + 1))
    /\ \A k \in 1..Len(Sends) : SeqNo(Sends[k].id) = counter - Len(Sends) + k
    /\ FreshBurst =>
          /\ Sends[1].cmd = "BEGIN_BATCH"
          /\ Sends[1].id = <<"c", "m", "d", "-", "0", "0", "0", "1">>
          /\ \A k \in 1..Len(LineSends) : SeqNo(LineSends[k].id) = k + 1
          /\ Last(Sends).cmd = "END_BATCH"
          /\ SeqNo(Last(Sends).id) = IF BeginOk THEN count + 2 ELSE 2
          /\ ~BeginOk => LineSends = <<>>
    /\ FormatId(1000 + 2) = <<"c", "m", "d", "-", "1", "0", "0", "2">>

\* C28 witness: a burst of two lines on a fresh client; BEGIN_BATCH was
\* answered 'ok', the first LINE failed, and END_BATCH is the fourth command.
C28_Witness ==
    /\ FreshBurst
    /\ count = 2
    /\ BeginOk
    /\ LineSends[1].res.val.status = "error"
    /\ Last(Sends).cmd = "END_BATCH"
    /\ Last(Sends).id = <<"c", "m", "d", "-", "0", "0", "0", "4">>

\* C29: begin_batch calls connect() and then sends BEGIN_BATCH on the owned
\* socket (nothing is sent when connect() raises); end_batch sends END_BATCH
\* and then disconnects whatever the result of END_BATCH is (ok, error
\* status, timeout, undecodable reply), returns that result, and leaves the
\* client with no socket owned or open.
C29_BatchSession ==
    /\ (pc = "idle" /\ op = "begin_batch" /\ ret.kind = "returned") =>
          /\ socket # None
          /\ Len(Sends) = 1
          /\ Last(wire) = Sends[1]
          /\ Sends[1].cmd = "BEGIN_BATCH"
          /\ Sends[1].persistent
          /\ Sends[1].sock = socket
          /\ Len(wire) = 2 => (wire[1].ev = "connect" /\ wire[1].sock = socket)
          /\ ret.val = <<Sends[1].res.val>>
    /\ (pc = "idle" /\ op = "begin_batch" /\ ret.kind = "raised") =>
          (ConnectFailed /\ Sends = <<>>)
    /\ (pc = "idle" /\ op = "end_batch") =>
          /\ ret.kind = "returned"
          /\ ret.val = <<Sends[1].res.val>>
          /\ wire[1] = Sends[1]
          /\ Sends[1].cmd = "END_BATCH"
          /\ socket = None
          /\ open = {}
    /\ \A o \in Exchanges(Self, TRUE) :
          LET r == EndBatch(Self, o)
          IN /\ r.raised = "none"
             /\ r.c.socket = None
             /\ r.c.open = open \ {socket}
             /\ r.val = r.c.lastSend.val

\* C29 witness: end_batch on a connected client; END_BATCH went out, no
\* reply came within the read timeout, and the socket was closed all the same.
C29_Witness ==
    /\ pc = "idle"
    /\ op = "end_batch"
    /\ PersistentReadTimedOut
    /\ Len(wire) = 2
    /\ wire[2].ev = "close"
    /\ wire[2].sock = Sends[1].sock
    /\ ret.val[1].status = "error"
    /\ socket = None
    /\ open = {}

\* C30: when the connect() of an operation failed, the client owns no
\* socket afterwards; a later connect() makes a new attempt; and a later
\* send in persistent mode does not go to the socket of the failed attempt.
C30_NothingOwnedAfterFailedConnect ==
    (pc = "idle" /\ op \in Connecting /\ ConnectFailed) =>
        /\ socket = None
        /\ \A how \in ConnectHows : Len(Connect(Self, how).c.wire) = Len(wire) + 1
        /\ \A o \in Exchanges(Self, TRUE) :
              Last(SendCommand(Self, "BEGIN_BATCH", <<>>, TRUE, o).c.wire).sock
                 # wire[1].sock

\* the operations the statement of C31 names as changing what the client owns
ListedOwnershipOps ==
    {"connect", "disconnect", "end_batch", "random_lines", "__enter__", "__exit__"}

\* a step that is one persistent send and nothing else: the BEGIN_BATCH and
\* the LINE commands of random_lines
PersistentSendStep == pc \in {"begin", "loop"} /\ Len(wire') = Len(wire) + 1

\* the owned connection is untouched by the step: the same socket object,
\* still open
OwnedKept ==
    /\ socket # None
    /\ socket' = socket
    /\ open' = open
    /\ socket' \in open'

\* the send of begin_batch(), which follows the connect() of the same call,
\* leaves the client owning an open socket: the one it owned before, if any
BeginBatchKeeps ==
    op' = "begin_batch" =>
        /\ socket' # None
        /\ socket' \in open'
        /\ socket # None => (socket' = socket /\ open' = open)

\* C31 as stated: a persistent-mode send leaves the owned connection as it
\* was, whatever its outcome, and what the client owns changes only in
\* connect, disconnect, end_batch, random_lines, __enter__ and __exit__.
C31_OwnershipChangesAsListed ==
    [][/\ PersistentSendStep => OwnedKept
       /\ BeginBatchKeeps
       /\ socket' # socket => op' \in ListedOwnershipOps]_vars

\* C31: a persistent-mode send leaves the owned connection as it was (the
\* same socket object, not closed), whatever its outcome; what the client
\* owns changes only in connect, disconnect, begin_batch, end_batch,
\* random_lines, __enter__ and __exit__.
C31_PersistentSendKeepsOwned ==
    [][/\ PersistentSendStep => OwnedKept
       /\ BeginBatchKeeps
       /\ socket' # socket => op' \in ListedOwnershipOps \cup {"begin_batch"}]_vars

\* C31 witness: inside random_lines a persistent exchange has just failed
\* (sendall or recv raised) and the client still owns the open socket it
\* was sent on.
C31_Witness ==
    /\ op = "random_lines"
    /\ pc \in {"loop", "finally"}
    /\ lastSend.owned
    /\ lastSend.out.exc \in {"OSError", "socket.timeout"}
    /\ socket # None
    /\ socket \in open
    /\ Last(wire).ev = "send"
    /\ Last(wire).sock = socket

\* the proxy answered a draw-random-lines request with success
DrawSucceeded ==
    /\ pc = "idle"
    /\ op = "random_lines"
    /\ http.handler = "draw_random_lines"
    /\ http.code = 200

\* the LINE commands of the batch whose result was a dict of status 'ok'
OkLines ==
    {k \in 1..Len(LineSends) :
        /\ LineSends[k].res.raised = "none"
        /\ LineSends[k].res.val.isdict
        /\ LineSends[k].res.val.status = "ok"}

\* C32: in a successful draw-random-lines response, 'created' is the number
\* of LINE commands of the batch whose result status was 'ok', and is never
\* larger than 'requested'.
C32_CreatedCountsOkLines ==
    DrawSucceeded =>
        /\ http.created = Cardinality(OkLines)
        /\ http.created <= http.requested

\* the request body the draw-random-lines handler got last: whether it is
\* JSON, its kind, count, min_coord, max_coord
DrawRequested == http.handler = "draw_random_lines" /\ Len(argv) = 5

\* a < b on floats: false when either side is nan
FloatLt(a, b) == a # NaN /\ b # NaN /\ a < b

\* the handler called random_lines on the client
DrawCalled == DrawRequested /\ op = "random_lines"

\* C33: the draw-random-lines handler calls random_lines only with
\* 1 <= count <= 10000 and min_coord < max_coord; for any other input it
\* answers 400, sends no command and opens no connection.
C33_ValidatedBeforeCall ==
    /\ DrawCalled => (1 <= count /\ count <= MaxLines /\ FloatLt(lo, hi))
    /\ (DrawRequested /\ ~(/\ argv[1]
                           /\ argv[2] = "object"
                           /\ 1 <= argv[3] /\ argv[3] <= MaxLines
                           /\ FloatLt(argv[4], argv[5]))) =>
          /\ http.code = 400
          /\ op = "none"
          /\ wire = <<>>
          /\ lastSend = NoSend

\* the command verbs a run put on the wire, in order
Verbs(w) == [k \in 1..Len(SelectSeq(w, IsSend)) |-> SelectSeq(w, IsSend)[k].cmd]

\* the statuses of a result sequence
Statuses(q) == [k \in 1..Len(q) |-> IF q[k].isdict THEN q[k].status ELSE "no dict"]

\* random_lines has ended on both clients, after a successful connect
TwinDone ==
    /\ pc = "idle"
    /\ op = "random_lines"
    /\ ipc.pc = "idle"
    /\ ipc.ret.kind # "none"

\* C34: for every peer behaviour after a successful connect, random_lines
\* of ZCADIPCClient and of ZCADTCPClient send the same sequence of command
\* verbs, return result sequences of the same length with the same
\* statuses, and both leave the client owning no connection.
C34_ClientsEquivalent ==
    TwinDone =>
        /\ Verbs(ipc.c.wire) = Verbs(wire)
        /\ ipc.ret.kind = ret.kind
        /\ Len(ipc.ret.val) = Len(ret.val)
        /\ Statuses(ipc.ret.val) = Statuses(ret.val)
        /\ socket = None
        /\ ipc.c.socket = None

====
